---------------------------- MODULE Spec2Model ----------------------------
(***************************************************************************)
(* A model of the Toronto open-data tool layer (src/src/ckanTools.ts):     *)
(* the relevance scorer, the update-frequency classifier and the tool      *)
(* handlers that compose catalog calls.                                    *)
(*                                                                         *)
(* Text is modelled as a sequence of one-character strings, so that        *)
(* toLowerCase and includes are computed, not assumed.  An optional value  *)
(* (a field that may be undefined) is a sequence of length at most one:    *)
(* None is undefined, Some(x) is the value x.                              *)
(***************************************************************************)
EXTENDS Integers, Sequences, FiniteSets, TLC

VARIABLES
    dataset,      \* the package handed to score / categorize
    query,        \* the query handed to score
    now,          \* the current time, in days (new Date() in daysSinceDate)
    relevance,    \* None before score returns, Some(n) after
    frequency,    \* None before categorize returns, Some(category) after
    request,      \* the tool call received: None, or Some([tool, raw])
    args,         \* the parameters the schema parsed, handed to the handler
    pc,           \* where the handler stands: "idle", an await, "done"
    calls,        \* the catalog calls issued so far, in order
    pending,      \* the indices (in calls) of the calls not yet answered
    locals,       \* the handler's local variables
    response,     \* None, or Some of what the invocation ended with
    scored,       \* the queries analyzeDatasetRelevance was called with
    fetchReply,   \* what the catalog answers to the fetch of ckanApiCall
    fetchOutcome, \* None before ckanApiCall ends, Some(what it ended with)
    pkgNotes,     \* the notes handed to truncateDescription
    truncated,    \* None before truncateDescription returns, Some(text) after
    pathname,     \* url.pathname of the request handed to the worker's fetch
    routed        \* None before fetch returns, Some(where the request went)

handlerVars == <<request, args, pc, calls, pending, locals, response, scored>>

helperVars == <<fetchReply, fetchOutcome, pkgNotes, truncated, pathname, routed>>

vars == <<dataset, query, now, relevance, frequency, request, args, pc, calls,
          pending, locals, response, scored, fetchReply, fetchOutcome,
          pkgNotes, truncated, pathname, routed>>

None == <<>>
Some(x) == <<x>>
IsSome(o) == Len(o) = 1
Get(o) == o[1]

(* no tool call received *)
HandlerIdle ==
    /\ request = None
    /\ args = None
    /\ pc = "idle"
    /\ calls = <<>>
    /\ pending = {}
    /\ locals = <<>>
    /\ response = None
    /\ scored = {}

(* neither ckanApiCall nor truncateDescription called on its own *)
HelpersIdle ==
    /\ fetchReply = None
    /\ fetchOutcome = None
    /\ pkgNotes = None
    /\ truncated = None
    /\ pathname = None
    /\ routed = None

---------------------------------------------------------------------------
(* String.prototype.toLowerCase and String.prototype.includes *)

(* the letters toLowerCase changes, each with its lower-case form *)
LowerOf ==
    "A" :> "a" @@ "B" :> "b" @@ "C" :> "c" @@ "D" :> "d" @@ "E" :> "e" @@
    "F" :> "f" @@ "G" :> "g" @@ "H" :> "h" @@ "I" :> "i" @@ "J" :> "j" @@
    "K" :> "k" @@ "L" :> "l" @@ "M" :> "m" @@ "N" :> "n" @@ "O" :> "o" @@
    "P" :> "p" @@ "Q" :> "q" @@ "R" :> "r" @@ "S" :> "s" @@ "T" :> "t" @@
    "U" :> "u" @@ "V" :> "v" @@ "W" :> "w" @@ "X" :> "x" @@ "Y" :> "y" @@
    "Z" :> "z"

LowerChar(c) == IF c \in DOMAIN LowerOf THEN LowerOf[c] ELSE c

ToLowerCase(s) == [i \in 1..Len(s) |-> LowerChar(s[i])]

Includes(s, q) ==
    \E off \in 0..(Len(s) - Len(q)) : SubSeq(s, off + 1, off + Len(q)) = q

---------------------------------------------------------------------------
(* CONFIG.RELEVANCE_WEIGHTS *)

TITLE == 10
DESCRIPTION == 5
TAGS == 3
ORGANIZATION == 2
RESOURCE == 1

(* RelevanceScorer: title?.toLowerCase().includes(query) ? w : 0, where an *)
(* undefined receiver of ?. makes the whole test falsy.                    *)

ScoreTitle(title, q) ==
    IF IsSome(title) /\ Includes(ToLowerCase(Get(title)), q) THEN TITLE ELSE 0

ScoreDescription(description, q) ==
    IF IsSome(description) /\ Includes(ToLowerCase(Get(description)), q)
    THEN DESCRIPTION ELSE 0

(* tags left out of the score *)
ScoreTagsIgnored(tags, q) == 0

(* ScoreTags without the toLowerCase() of the tag name *)
ScoreTagsCaseSensitive(tags, q) ==
    IF IsSome(tags)
       /\ \E i \in 1..Len(Get(tags)) : Includes(Get(tags)[i].name, q)
    THEN TAGS ELSE 0

ScoreTags(tags, q) ==
    IF IsSome(tags)
       /\ \E i \in 1..Len(Get(tags)) : Includes(ToLowerCase(Get(tags)[i].name), q)
    THEN TAGS ELSE 0

ScoreOrganization(organization, q) ==
    IF IsSome(organization)
       /\ IsSome(Get(organization).title)
       /\ Includes(ToLowerCase(Get(Get(organization).title)), q)
    THEN ORGANIZATION ELSE 0

ScoreResources(resources, q) ==
    LET hasMatch ==
            IsSome(resources)
            /\ \E i \in 1..Len(Get(resources)) :
                  LET r == Get(resources)[i] IN
                  \/ IsSome(r.name) /\ Includes(ToLowerCase(Get(r.name)), q)
                  \/ IsSome(r.format) /\ Includes(ToLowerCase(Get(r.format)), q)
    IN IF hasMatch THEN RESOURCE ELSE 0

(* Score with the resource weight taken off instead of added *)
ScoreCancelling(d, qry) ==
    LET lowerQuery == ToLowerCase(qry) IN
      ScoreTitle(d.title, lowerQuery)
    + ScoreDescription(d.notes, lowerQuery)
    + ScoreTags(d.tags, lowerQuery)
    + ScoreOrganization(d.organization, lowerQuery)
    - ScoreResources(d.resources, lowerQuery)

Score(d, qry) ==
    LET lowerQuery == ToLowerCase(qry) IN
      ScoreTitle(d.title, lowerQuery)
    + ScoreDescription(d.notes, lowerQuery)
    + ScoreTags(d.tags, lowerQuery)
    + ScoreOrganization(d.organization, lowerQuery)
    + ScoreResources(d.resources, lowerQuery)

---------------------------------------------------------------------------
(* The scorer applied to bounded inputs.  The query and one text a range   *)
(* over every string of at most MaxStrLen characters of ScoreAlphabet; each *)
(* field of the package is undefined, a, or the fixed text k.               *)

ScoreAlphabet == {"p", "P", "k"}
MaxStrLen == 2
Texts == UNION {[1..n -> ScoreAlphabet] : n \in 0..MaxStrLen}
OtherText == <<"k">>

ScoreDatasets(a) ==
    [title : {None, Some(a), Some(OtherText)},
     notes : {None, Some(a)},
     tags : {None, Some(<<>>), Some(<<[name |-> a]>>),
             Some(<<[name |-> OtherText], [name |-> a]>>)},
     organization : {None, Some([title |-> None]), Some([title |-> Some(a)])},
     resources : {None, Some(<<>>),
                  Some(<<[name |-> Some(a), format |-> None]>>),
                  Some(<<[name |-> Some(OtherText), format |-> Some(OtherText)],
                         [name |-> None, format |-> Some(a)]>>)}]

InitScore ==
    /\ query \in Texts
    /\ \E a \in Texts : dataset \in ScoreDatasets(a)
    /\ now = 0
    /\ relevance = None
    /\ frequency = None
    /\ HandlerIdle
    /\ HelpersIdle

CallScore ==
    /\ relevance = None
    /\ relevance' = Some(Score(dataset, query))
    /\ UNCHANGED <<dataset, query, now, frequency>>
    /\ UNCHANGED handlerVars
    /\ UNCHANGED helperVars

SpecScore == InitScore /\ [][CallScore]_vars

---------------------------------------------------------------------------
(* UpdateFrequencyAnalyzer.  Timestamps are strings in the source; here a  *)
(* timestamp is [kind, day]: "empty" is the empty string, "invalid" a      *)
(* string new Date() cannot parse (getTime() is NaN), "date" a parseable   *)
(* string whose instant falls on day `day`.  The clock counts whole days:  *)
(* the thresholds are whole numbers, so d < 7 and floor(d) < 7 agree.      *)
(* A number that may be NaN is an optional integer: None is NaN.           *)

(* PATTERNS with the weekly entry written before the daily one *)
PatternsWeeklyFirst ==
    <<[category |-> "weekly", patterns |-> {<<"w","e","e","k","l","y">>}],
      [category |-> "daily",
       patterns |-> {<<"d","a","i","l","y">>, <<"r","e","a","l","-","t","i","m","e">>}],
      [category |-> "monthly", patterns |-> {<<"m","o","n","t","h","l","y">>}],
      [category |-> "quarterly",
       patterns |-> {<<"q","u","a","r","t","e","r","l","y">>}],
      [category |-> "annually",
       patterns |-> {<<"a","n","n","u","a","l">>, <<"y","e","a","r","l","y">>}],
      [category |-> "irregular",
       patterns |-> {<<"i","r","r","e","g","u","l","a","r">>,
                     <<"a","s"," ","n","e","e","d","e","d">>}]>>

Patterns ==
    <<[category |-> "daily",
       patterns |-> {<<"d","a","i","l","y">>, <<"r","e","a","l","-","t","i","m","e">>}],
      [category |-> "weekly", patterns |-> {<<"w","e","e","k","l","y">>}],
      [category |-> "monthly", patterns |-> {<<"m","o","n","t","h","l","y">>}],
      [category |-> "quarterly",
       patterns |-> {<<"q","u","a","r","t","e","r","l","y">>}],
      [category |-> "annually",
       patterns |-> {<<"a","n","n","u","a","l">>, <<"y","e","a","r","l","y">>}],
      [category |-> "irregular",
       patterns |-> {<<"i","r","r","e","g","u","l","a","r">>,
                     <<"a","s"," ","n","e","e","d","e","d">>}]>>

(* CONFIG.FREQUENCY_THRESHOLDS *)
FREQUENT_DAYS == 7
MONTHLY_DAYS == 30
QUARTERLY_DAYS == 90

Truthy(ts) == IsSome(ts) /\ Get(ts).kind # "empty"

(* new Date(dateString).getTime(), in days *)
GetTime(ts) == IF ts.kind = "date" THEN Some(ts.day) ELSE None

(* (now.getTime() - date.getTime()) / (1000 * 3600 * 24) *)
DaysSinceDate(ts, t) ==
    IF IsSome(GetTime(ts)) THEN Some(t - Get(GetTime(ts))) ELSE None

(* x <= y in place of x < y *)
LessThanOrEqual(x, y) == IsSome(x) /\ Get(x) <= y

(* x < y on numbers: false when x is NaN *)
LessThan(x, y) == IsSome(x) /\ Get(x) < y

(* dataset.metadata_modified || dataset.maintainer_updated *)
LastUpdateMetadataFirst(d) ==
    IF Truthy(d.metadata_modified) THEN d.metadata_modified
    ELSE d.maintainer_updated

(* dataset.maintainer_updated || dataset.metadata_modified *)
LastUpdate(d) ==
    IF Truthy(d.maintainer_updated) THEN d.maintainer_updated
    ELSE d.metadata_modified

(* inferFromMetadata whose last test is daysSince >= QUARTERLY_DAYS and     *)
(* that falls off its end (returns undefined) when no test holds           *)
InferFromMetadataNoFallthrough(d, t) ==
    LET lastUpdate == LastUpdate(d) IN
    IF ~Truthy(lastUpdate) THEN "unknown"
    ELSE LET daysSince == DaysSinceDate(Get(lastUpdate), t) IN
         IF LessThan(daysSince, FREQUENT_DAYS) THEN "frequent"
         ELSE IF LessThan(daysSince, MONTHLY_DAYS) THEN "monthly"
         ELSE IF LessThan(daysSince, QUARTERLY_DAYS) THEN "quarterly"
         ELSE IF IsSome(daysSince) THEN "infrequent"
         ELSE "undefined"

(* inferFromMetadata returning "irregular" where it returns "infrequent" *)
InferFromMetadataIrregular(d, t) ==
    LET lastUpdate == LastUpdate(d) IN
    IF ~Truthy(lastUpdate) THEN "unknown"
    ELSE LET daysSince == DaysSinceDate(Get(lastUpdate), t) IN
         IF LessThan(daysSince, FREQUENT_DAYS) THEN "frequent"
         ELSE IF LessThan(daysSince, MONTHLY_DAYS) THEN "monthly"
         ELSE IF LessThan(daysSince, QUARTERLY_DAYS) THEN "quarterly"
         ELSE "irregular"

InferFromMetadata(d, t) ==
    LET lastUpdate == LastUpdate(d) IN
    IF ~Truthy(lastUpdate) THEN "unknown"
    ELSE LET daysSince == DaysSinceDate(Get(lastUpdate), t) IN
         IF LessThan(daysSince, FREQUENT_DAYS) THEN "frequent"
         ELSE IF LessThan(daysSince, MONTHLY_DAYS) THEN "monthly"
         ELSE IF LessThan(daysSince, QUARTERLY_DAYS) THEN "quarterly"
         ELSE "infrequent"

(* dataset.refresh_rate?.toLowerCase() || "" *)
RefreshRate(d) ==
    IF IsSome(d.refresh_rate) THEN ToLowerCase(Get(d.refresh_rate)) ELSE <<>>

(* for (const [category, patterns] of Object.entries(PATTERNS)), from the  *)
(* i-th entry on: the first entry one of whose patterns is included.       *)
RECURSIVE FirstPattern(_, _)
FirstPattern(refreshRate, i) ==
    IF i > Len(Patterns) THEN None
    ELSE IF \E p \in Patterns[i].patterns : Includes(refreshRate, p)
         THEN Some(Patterns[i].category)
         ELSE FirstPattern(refreshRate, i + 1)

Categorize(d, t) ==
    LET explicit == FirstPattern(RefreshRate(d), 1) IN
    IF IsSome(explicit) THEN Get(explicit) ELSE InferFromMetadata(d, t)

---------------------------------------------------------------------------
(* The classifier applied to bounded inputs: a refresh_rate that is        *)
(* undefined or the concatenation of at most MaxFragments fragments, two   *)
(* timestamps and a clock reading chosen so that the ages fall on both     *)
(* sides of every threshold (and in the future).                           *)

Fragments ==
    {<<"D","a","i","l","y">>, <<"R","e","a","l","-","T","i","m","e">>,
     <<"w","e","e","k","l","y">>, <<"M","o","n","t","h","l","y">>,
     <<"q","u","a","r","t","e","r","l","y">>, <<"A","n","n","u","a","l">>,
     <<"y","e","a","r","l","y">>, <<"I","r","r","e","g","u","l","a","r">>,
     <<"A","s"," ","N","e","e","d","e","d">>,
     <<"U","p","d","a","t","e","d"," ">>}

MaxFragments == 2

RECURSIVE Concatenations(_)
Concatenations(n) ==
    IF n = 0 THEN {<<>>}
    ELSE Concatenations(n - 1)
         \cup {s \o f : s \in Concatenations(n - 1), f \in Fragments}

RefreshRates == {None} \cup {Some(s) : s \in Concatenations(MaxFragments)}

(* With the clock at day 100 or 101 the dates below are 100, 89, 40, 29,  *)
(* 6, 5 and -3, or 101, 90, 41, 30, 7, 6 and -2 days old.                  *)
DateDays == {0, 11, 60, 71, 94, 95, 103}
MaintainerDays == {0, 95}
Nows == {100, 101}

Timestamps(days) ==
    {None, Some([kind |-> "empty", day |-> 0]), Some([kind |-> "invalid", day |-> 0])}
    \cup {Some([kind |-> "date", day |-> n]) : n \in days}

ClassifyDatasets ==
    [refresh_rate : RefreshRates,
     maintainer_updated : Timestamps(MaintainerDays),
     metadata_modified : Timestamps(DateDays)]

InitClassify ==
    /\ dataset \in ClassifyDatasets
    /\ now \in Nows
    /\ query = <<>>
    /\ relevance = None
    /\ frequency = None
    /\ HandlerIdle
    /\ HelpersIdle

CallCategorize ==
    /\ frequency = None
    /\ frequency' = Some(Categorize(dataset, now))
    /\ UNCHANGED <<dataset, query, now, relevance>>
    /\ UNCHANGED handlerVars
    /\ UNCHANGED helperVars

SpecClassify == InitClassify /\ [][CallCategorize]_vars

---------------------------------------------------------------------------
(* Properties of the scorer and the classifier.                            *)
(*                                                                         *)
(* Case-insensitive containment, stated without toLowerCase: q occurs in s *)
(* at some offset, letter for letter up to case.                           *)

CasePairs == {<<u, LowerOf[u]>> : u \in DOMAIN LowerOf}

SameLetter(c, d) == c = d \/ <<c, d>> \in CasePairs \/ <<d, c>> \in CasePairs

ContainsIgnoringCase(s, q) ==
    \E off \in 0..(Len(s) - Len(q)) :
        \A j \in 1..Len(q) : SameLetter(s[off + j], q[j])

Weight(holds, w) == IF holds THEN w ELSE 0

TitleMatches(d, q) == IsSome(d.title) /\ ContainsIgnoringCase(Get(d.title), q)
DescriptionMatches(d, q) == IsSome(d.notes) /\ ContainsIgnoringCase(Get(d.notes), q)
TagMatches(d, q) ==
    /\ IsSome(d.tags)
    /\ \E i \in 1..Len(Get(d.tags)) : ContainsIgnoringCase(Get(d.tags)[i].name, q)
OrganizationMatches(d, q) ==
    /\ IsSome(d.organization)
    /\ IsSome(Get(d.organization).title)
    /\ ContainsIgnoringCase(Get(Get(d.organization).title), q)
ResourceMatches(d, q) ==
    /\ IsSome(d.resources)
    /\ \E i \in 1..Len(Get(d.resources)) :
          \E f \in {Get(d.resources)[i].name, Get(d.resources)[i].format} :
              IsSome(f) /\ ContainsIgnoringCase(Get(f), q)

(* C1: score(P, Q) is the sum of the weights of exactly the criteria that  *)
(* hold under case-insensitive containment of Q: 10 for the title, 5 for   *)
(* the description, 3 for some tag name, 2 for the organization title, 1   *)
(* for some resource's name or format; each counts once and a missing      *)
(* field counts 0.                                                         *)
C1_ScoreIsSumOfWeights ==
    IsSome(relevance) =>
        Get(relevance) =
              Weight(TitleMatches(dataset, query), 10)
            + Weight(DescriptionMatches(dataset, query), 5)
            + Weight(TagMatches(dataset, query), 3)
            + Weight(OrganizationMatches(dataset, query), 2)
            + Weight(ResourceMatches(dataset, query), 1)

(* A scored package whose second tag matches a query of another case, and  *)
(* whose title is present but does not match, its description missing.     *)
C1_Witness ==
    /\ relevance = Some(3)
    /\ query = <<"p", "P">>
    /\ dataset.title = Some(OtherText)
    /\ dataset.notes = None
    /\ dataset.tags = Some(<<[name |-> OtherText], [name |-> <<"P", "p">>]>>)

Categories ==
    {"daily", "weekly", "monthly", "quarterly", "annually", "irregular",
     "frequent", "infrequent", "unknown"}

(* C2: categorize is total: for every package, with refresh_rate missing,  *)
(* timestamps missing, unparseable or in the future, it returns one of the *)
(* nine categories.                                                        *)
C2_CategorizeTotal == IsSome(frequency) => Get(frequency) \in Categories

(* A package with no refresh_rate whose only timestamp cannot be parsed.   *)
C2_Witness ==
    /\ IsSome(frequency)
    /\ dataset.refresh_rate = None
    /\ dataset.maintainer_updated = None
    /\ IsSome(dataset.metadata_modified)
    /\ Get(dataset.metadata_modified).kind = "invalid"

DeclaresAny(d, kws) ==
    IsSome(d.refresh_rate)
    /\ \E kw \in kws : ContainsIgnoringCase(Get(d.refresh_rate), kw)

DailyWords == {<<"d","a","i","l","y">>, <<"r","e","a","l","-","t","i","m","e">>}
WeeklyWords == {<<"w","e","e","k","l","y">>}
MonthlyWords == {<<"m","o","n","t","h","l","y">>}
QuarterlyWords == {<<"q","u","a","r","t","e","r","l","y">>}
AnnuallyWords == {<<"a","n","n","u","a","l">>, <<"y","e","a","r","l","y">>}
IrregularWords ==
    {<<"i","r","r","e","g","u","l","a","r">>, <<"a","s"," ","n","e","e","d","e","d">>}
AllWords ==
    DailyWords \cup WeeklyWords \cup MonthlyWords \cup QuarterlyWords
    \cup AnnuallyWords \cup IrregularWords

DeclaresSchedule(d) == DeclaresAny(d, AllWords)

DeclaredCategory(d) ==
    IF DeclaresAny(d, DailyWords) THEN "daily"
    ELSE IF DeclaresAny(d, WeeklyWords) THEN "weekly"
    ELSE IF DeclaresAny(d, MonthlyWords) THEN "monthly"
    ELSE IF DeclaresAny(d, QuarterlyWords) THEN "quarterly"
    ELSE IF DeclaresAny(d, AnnuallyWords) THEN "annually"
    ELSE "irregular"

(* C3: when the refresh_rate contains a keyword, the category is the first *)
(* one in the order daily, weekly, monthly, quarterly, annually, irregular *)
(* one of whose keywords it contains; it is a function of the refresh_rate *)
(* alone, whatever the timestamps and the clock.                           *)
C3_DeclaredPriority ==
    (IsSome(frequency) /\ DeclaresSchedule(dataset)) =>
        Get(frequency) = DeclaredCategory(dataset)

(* "weekly" followed by "Daily", with timestamps a hundred days old.       *)
C3_Witness ==
    /\ frequency = Some("daily")
    /\ dataset.refresh_rate =
          Some(<<"w","e","e","k","l","y","D","a","i","l","y">>)
    /\ dataset.maintainer_updated = Some([kind |-> "date", day |-> 0])
    /\ dataset.metadata_modified = Some([kind |-> "date", day |-> 0])
    /\ now = 100

Available(ts) == IsSome(ts) /\ Get(ts).kind # "empty"

(* The timestamp the fallback reads: maintainer_updated when it is         *)
(* available, metadata_modified otherwise.                                 *)
Chosen(d) ==
    IF Available(d.maintainer_updated) THEN d.maintainer_updated
    ELSE d.metadata_modified

Bracket(days) ==
    IF days < 7 THEN "frequent"
    ELSE IF days < 30 THEN "monthly"
    ELSE IF days < 90 THEN "quarterly"
    ELSE "infrequent"

(* C4: with no keyword in the refresh_rate, the category follows from the  *)
(* days d since the chosen timestamp: d < 7 frequent, 7 <= d < 30 monthly, *)
(* 30 <= d < 90 quarterly, d >= 90 infrequent; with neither timestamp      *)
(* available it is unknown.                                                *)
C4_RecencyThresholds ==
    (IsSome(frequency) /\ ~DeclaresSchedule(dataset)) =>
        /\ (~Available(dataset.maintainer_updated)
            /\ ~Available(dataset.metadata_modified))
              => Get(frequency) = "unknown"
        /\ (Available(Chosen(dataset)) /\ Get(Chosen(dataset)).kind = "date")
              => Get(frequency) = Bracket(now - Get(Chosen(dataset)).day)

(* No refresh_rate, metadata_modified 40 days ago: quarterly.              *)
C4_Witness ==
    /\ frequency = Some("quarterly")
    /\ dataset.refresh_rate = None
    /\ dataset.maintainer_updated = None
    /\ dataset.metadata_modified = Some([kind |-> "date", day |-> 60])
    /\ now = 100

BothDates(d) ==
    /\ Available(d.maintainer_updated) /\ Get(d.maintainer_updated).kind = "date"
    /\ Available(d.metadata_modified) /\ Get(d.metadata_modified).kind = "date"

Later(x, y) == IF x >= y THEN x ELSE y

(* C5, as claimed: in the fallback, when both timestamps are present the   *)
(* elapsed days are counted from the later of the two.                     *)
C5_Original_LatestTimestamp ==
    (IsSome(frequency) /\ ~DeclaresSchedule(dataset) /\ BothDates(dataset)) =>
        Get(frequency) =
            Bracket(now - Later(Get(dataset.maintainer_updated).day,
                                Get(dataset.metadata_modified).day))

(* C5, amended: in the fallback the elapsed days are counted from          *)
(* maintainer_updated whenever it is present and non-empty, also when      *)
(* metadata_modified is later, and from metadata_modified only otherwise.  *)
C5_MaintainerUpdatedFirst ==
    (IsSome(frequency) /\ ~DeclaresSchedule(dataset)) =>
        /\ (Available(dataset.maintainer_updated)
            /\ Get(dataset.maintainer_updated).kind = "date")
              => Get(frequency) = Bracket(now - Get(dataset.maintainer_updated).day)
        /\ (~Available(dataset.maintainer_updated)
            /\ Available(dataset.metadata_modified)
            /\ Get(dataset.metadata_modified).kind = "date")
              => Get(frequency) = Bracket(now - Get(dataset.metadata_modified).day)

(* maintainer_updated a hundred days old, metadata_modified five days old: *)
(* classified infrequent, from the older one.                              *)
C5_Witness ==
    /\ frequency = Some("infrequent")
    /\ dataset.refresh_rate = None
    /\ dataset.maintainer_updated = Some([kind |-> "date", day |-> 0])
    /\ dataset.metadata_modified = Some([kind |-> "date", day |-> 95])
    /\ now = 100

(* Categories the declared-refresh_rate path returns: those returned for   *)
(* the packages that declare a schedule and carry no timestamp.            *)
DeclaredReturns ==
    {Categorize(d, 100) :
        d \in {x \in [refresh_rate : RefreshRates,
                      maintainer_updated : {None},
                      metadata_modified : {None}] : DeclaresSchedule(x)}}

(* C6, as claimed: a category returned by the recency path is never one    *)
(* that the declared-refresh_rate path can return.                         *)
C6_Original_DisjointVocabularies ==
    (IsSome(frequency) /\ ~DeclaresSchedule(dataset)) =>
        Get(frequency) \notin DeclaredReturns

(* C6, amended: the declared path returns only daily, weekly, monthly,     *)
(* quarterly, annually or irregular, the recency path only frequent,       *)
(* monthly, quarterly, infrequent or unknown; so frequent, infrequent and  *)
(* unknown come only from the recency path and daily, weekly, annually and *)
(* irregular only from a declared schedule, while monthly and quarterly    *)
(* can come from either.                                                   *)
C6_SharedMonthlyQuarterly ==
    IsSome(frequency) =>
        IF DeclaresSchedule(dataset)
        THEN Get(frequency) \in
                {"daily", "weekly", "monthly", "quarterly", "annually", "irregular"}
        ELSE Get(frequency) \in
                {"frequent", "monthly", "quarterly", "infrequent", "unknown"}

(* monthly inferred from a timestamp seven days old, no schedule declared *)
C6_Witness ==
    /\ frequency = Some("monthly")
    /\ ~DeclaresSchedule(dataset)
    /\ dataset.maintainer_updated = None
    /\ dataset.metadata_modified = Some([kind |-> "date", day |-> 94])
    /\ now = 101

---------------------------------------------------------------------------
(* The catalog client.  What the catalog answers to one call is a Reply:   *)
(* fetch rejecting (a timeout, a transport failure), an HTTP status        *)
(* outside 2xx, or the JSON envelope {success, result, error}.             *)

(* What the fetch of a catalog call can end with: a rejection (the network *)
(* failed, or AbortSignal.timeout fired), or a response with its status,   *)
(* its status text and its body; json is None when the body is not JSON,   *)
(* otherwise the envelope {success, result, error: {message}}.             *)
NetworkFailure ==
    [kind |-> "network", status |-> 0, statusText |-> "", json |-> None]
Timeout ==
    [kind |-> "timeout", status |-> 0, statusText |-> "", json |-> None]
Http(status, statusText, json) ==
    [kind |-> "response", status |-> status, statusText |-> statusText,
     json |-> json]
Envelope(success, result, message) ==
    [success |-> success, result |-> result, message |-> message]

HttpFailure == Http(404, "Not Found", None)
ApiFailure == Http(200, "OK", Some(Envelope(FALSE, None, Some("Not found"))))
Success(r) == Http(200, "OK", Some(Envelope(TRUE, Some(r), None)))

Failures == {NetworkFailure, Timeout, HttpFailure, ApiFailure}

(* an Error: its class name and its message, the message as the pieces it  *)
(* was put together from                                                   *)
Thrown(name, message) ==
    [ok |-> FALSE, result |-> None,
     error |-> [name |-> name, message |-> message]]
Returned(result) ==
    [ok |-> TRUE, result |-> result, error |-> [name |-> "", message |-> <<>>]]

(* response.ok *)
ResponseOk(status) == status \in 200..299

(* json.error?.message || 'Unknown API error' *)
ApiErrorMessage(json) ==
    IF IsSome(json.message) /\ Get(json.message) # ""
    THEN Get(json.message) ELSE "Unknown API error"

(* as TryBody, but without the test of json.success *)
TryBodyIgnoresSuccess(r) ==
    IF r.kind = "network" THEN Thrown("TypeError", <<"fetch failed">>)
    ELSE IF r.kind = "timeout"
    THEN Thrown("TimeoutError", <<"The operation was aborted due to timeout">>)
    ELSE IF ~ResponseOk(r.status)
    THEN Thrown("Error", <<"CKAN API HTTP error: ", ToString(r.status), " ",
                           r.statusText>>)
    ELSE IF ~IsSome(r.json)
    THEN Thrown("SyntaxError", <<"Unexpected end of JSON input">>)
    ELSE Returned(Get(r.json).result)

(* the try block of ckanApiCall: what it returns, or the error it throws *)
TryBody(r) ==
    IF r.kind = "network" THEN Thrown("TypeError", <<"fetch failed">>)
    ELSE IF r.kind = "timeout"
    THEN Thrown("TimeoutError", <<"The operation was aborted due to timeout">>)
    ELSE IF ~ResponseOk(r.status)
    THEN Thrown("Error", <<"CKAN API HTTP error: ", ToString(r.status), " ",
                           r.statusText>>)
    ELSE IF ~IsSome(r.json)
    THEN Thrown("SyntaxError", <<"Unexpected end of JSON input">>)
    ELSE IF ~Get(r.json).success
    THEN Thrown("Error", <<"CKAN API error: ", ApiErrorMessage(Get(r.json))>>)
    ELSE Returned(Get(r.json).result)

(* as CkanApiCall, but the error caught is thrown again as it is *)
CkanApiCallRethrows(r) == TryBody(r)

(* ckanApiCall: the result, or a new Error that wraps the message of the   *)
(* one caught (every error thrown in the try block is an Error)            *)
CkanApiCall(r) ==
    IF TryBody(r).ok THEN TryBody(r)
    ELSE Thrown("Error", <<"Failed to fetch from CKAN API: ">>
                            \o TryBody(r).error.message)

(* ckanApiCall on its own: the fetch ends in any of these ways *)
ClientReplies ==
    {NetworkFailure, Timeout}
    \cup {Http(st, txt, j) :
            st \in {199, 200, 201, 299, 300, 404, 500, 503},
            txt \in {"", "Not Found"},
            j \in {None} \cup
                  {Some(Envelope(ok, r, msg)) :
                      ok \in BOOLEAN, r \in {None, Some("r1")},
                      msg \in {None, Some(""), Some("Not found"),
                               Some("CKAN API HTTP error: ")}}}

InitClient ==
    /\ fetchReply \in ClientReplies
    /\ fetchOutcome = None
    /\ pkgNotes = None
    /\ truncated = None
    /\ pathname = None
    /\ routed = None
    /\ dataset = None
    /\ query = <<>>
    /\ now = 0
    /\ relevance = None
    /\ frequency = None
    /\ HandlerIdle

CallCkanApi ==
    /\ fetchOutcome = None
    /\ fetchOutcome' = Some(CkanApiCall(fetchReply))
    /\ UNCHANGED <<fetchReply, pkgNotes, truncated, pathname, routed>>
    /\ UNCHANGED <<dataset, query, now, relevance, frequency>>
    /\ UNCHANGED handlerVars

SpecClient == InitClient /\ [][CallCkanApi]_vars

---------------------------------------------------------------------------
(* The worker's fetch (index.ts, carried by src/test-deployment.ts): the   *)
(* request is dispatched on url.pathname.  A pathname is the sequence of   *)
(* its segments: "/" is <<"">>, "/sse" is <<"sse">>, "/sse/message" is     *)
(* <<"sse", "message">>, "/sse/" is <<"sse", "">>.                         *)

(* every segment compared as a prefix, not the whole pathname *)
RouteByFirstSegment(path) ==
    IF path[1] = "sse" THEN [to |-> "serveSSE", mount |-> "/sse", status |-> 0, body |-> ""]
    ELSE IF path[1] = "mcp" THEN [to |-> "serve", mount |-> "/mcp", status |-> 0, body |-> ""]
    ELSE [to |-> "Response", mount |-> "", status |-> 404, body |-> "Not found"]

(* where fetch sends the request: to TorontoMCP.serveSSE("/sse"), to       *)
(* TorontoMCP.serve("/mcp"), or to its own new Response("Not found", 404)  *)
Route(path) ==
    IF path = <<"sse">> \/ path = <<"sse", "message">>
    THEN [to |-> "serveSSE", mount |-> "/sse", status |-> 0, body |-> ""]
    ELSE IF path = <<"mcp">>
    THEN [to |-> "serve", mount |-> "/mcp", status |-> 0, body |-> ""]
    ELSE [to |-> "Response", mount |-> "", status |-> 404, body |-> "Not found"]

MaxSegments == 3

Pathnames ==
    UNION {[1..n -> {"", "sse", "mcp", "message", "SSE", "tools"}] :
              n \in 1..MaxSegments}

InitRouter ==
    /\ pathname \in {Some(p) : p \in Pathnames}
    /\ routed = None
    /\ fetchReply = None
    /\ fetchOutcome = None
    /\ pkgNotes = None
    /\ truncated = None
    /\ dataset = None
    /\ query = <<>>
    /\ now = 0
    /\ relevance = None
    /\ frequency = None
    /\ HandlerIdle

Fetch ==
    /\ routed = None
    /\ routed' = Some(Route(Get(pathname)))
    /\ UNCHANGED <<pathname, fetchReply, fetchOutcome, pkgNotes, truncated>>
    /\ UNCHANGED <<dataset, query, now, relevance, frequency>>
    /\ UNCHANGED handlerVars

SpecRouter == InitRouter /\ [][Fetch]_vars

---------------------------------------------------------------------------
(* The catalog's packages.                                                 *)

Date(n) == Some([kind |-> "date", day |-> n])

ParkingTickets ==
    [id |-> "p1", name |-> "parking-tickets",
     title |-> Some(<<"P","a","r","k","i","n","g"," ","T","i","c","k","e","t","s">>),
     notes |-> None,
     tags |-> Some(<<[name |-> <<"p","a","r","k","i","n","g">>], [name |-> <<"t","i","c","k","e","t","s">>],
                     [name |-> <<"f","i","n","e","s">>], [name |-> <<"e","n","f","o","r","c","e","m","e","n","t">>],
                     [name |-> <<"p","o","l","i","c","e">>], [name |-> <<"b","y","l","a","w">>],
                     [name |-> <<"i","n","f","r","a","c","t","i","o","n","s">>], [name |-> <<"v","e","h","i","c","l","e","s">>],
                     [name |-> <<"s","t","r","e","e","t","s">>], [name |-> <<"p","a","y","m","e","n","t","s">>]>>),
     organization |-> Some([title |-> Some(<<"P","o","l","i","c","e">>)]),
     resources |-> Some(<<[id |-> "r1", name |-> Some(<<"T","i","c","k","e","t","s">>),
                           format |-> Some(<<"C","S","V">>), datastore_active |-> TRUE]>>),
     refresh_rate |-> Some(<<"D","a","i","l","y">>),
     maintainer_updated |-> None,
     metadata_modified |-> Date(95)]

TrafficSignals ==
    [id |-> "p2", name |-> "traffic-signals",
     title |-> Some(<<"T","r","a","f","f","i","c"," ","S","i","g","n","a","l","s">>),
     notes |-> Some(<<"S","i","g","n","a","l"," ","t","i","m","i","n","g">>),
     tags |-> Some(<<[name |-> <<"t","r","a","f","f","i","c">>], [name |-> <<"r","o","a","d","s">>]>>),
     organization |-> Some([title |-> Some(<<"T","r","a","n","s","p","o","r","t","a","t","i","o","n">>)]),
     resources |-> Some(<<[id |-> "r2", name |-> Some(<<"S","i","g","n","a","l","s">>),
                           format |-> Some(<<"S","H","P">>), datastore_active |-> FALSE]>>),
     refresh_rate |-> None,
     maintainer_updated |-> None,
     metadata_modified |-> Date(5)]

GreenPParking ==
    [id |-> "p3", name |-> "green-p-parking",
     title |-> Some(<<"G","r","e","e","n"," ","P"," ","P","a","r","k","i","n","g">>),
     notes |-> None,
     tags |-> Some(<<[name |-> <<"r","o","a","d","s">>]>>),
     organization |-> Some([title |-> None]),
     resources |-> Some(<<[id |-> "r3", name |-> Some(<<"L","o","t","s">>),
                           format |-> Some(<<"J","S","O","N">>), datastore_active |-> TRUE],
                          [id |-> "r4", name |-> Some(<<"R","a","t","e","s">>),
                           format |-> Some(<<"C","S","V">>), datastore_active |-> TRUE],
                          [id |-> "r5", name |-> Some(<<"A","r","c","h","i","v","e">>),
                           format |-> Some(<<"C","S","V">>), datastore_active |-> FALSE]>>),
     refresh_rate |-> Some(<<"A","s"," ","N","e","e","d","e","d">>),
     maintainer_updated |-> Date(0),
     metadata_modified |-> Date(95)]

Sparse ==
    [id |-> "p4", name |-> "sparse",
     title |-> None,
     notes |-> Some(<<"P","A","R","K","I","N","G"," ","l","o","t","s">>),
     tags |-> None,
     organization |-> None,
     resources |-> Some(<<>>),
     refresh_rate |-> None,
     maintainer_updated |-> Some([kind |-> "invalid", day |-> 0]),
     metadata_modified |-> None]

CatalogPackages == {ParkingTickets, TrafficSignals, GreenPParking, Sparse}

(* what package_show answers for an id: the package, or a failure *)
PackageReplies(id) ==
    Failures \cup {Success(pkg) : pkg \in {x \in CatalogPackages : x.id = id}}

Range(a) == {a[i] : i \in 1..Len(a)}

(* Sequences of distinct elements of S, of length at most n *)
RECURSIVE DistinctSeqs(_, _)
DistinctSeqs(S, n) ==
    IF n = 0 THEN {<<>>}
    ELSE LET shorter == DistinctSeqs(S, n - 1) IN
         shorter \cup UNION {{Append(q, x) : x \in S \ Range(q)} :
                               q \in {r \in shorter : Len(r) = n - 1}}

MaxResults == 3

(* a search result lists each package at most once; count is the number of *)
(* packages that matched, which can exceed the rows that were asked for    *)
SearchResults ==
    {[count |-> c, results |-> r] :
        r \in DistinctSeqs(CatalogPackages, MaxResults), c \in {100}} \cup
    {[count |-> Len(r), results |-> r] :
        r \in DistinctSeqs(CatalogPackages, MaxResults)}

(* what package_search answers: any list of packages, or a failure *)
SearchReplies == Failures \cup {Success(r) : r \in SearchResults}

---------------------------------------------------------------------------
(* The parameters of a tool call as the transport receives them, and the   *)
(* schemas (zod) they are parsed with before the handler runs.             *)

RawString(text) == Some([kind |-> "string", val |-> text])
RawNumber(n) == Some([kind |-> "number", val |-> n])
RawBoolean(b) == Some([kind |-> "boolean", val |-> b])
RawArray(a) == Some([kind |-> "array", val |-> a])

(* z.string() *)
ZString(raw) == IsSome(raw) /\ Get(raw).kind = "string"
(* z.string().optional(), z.array(z.string()).optional() *)
ZOptional(raw, kind) == IsSome(raw) => Get(raw).kind = kind
(* the parsed value of an optional parameter: undefined when absent *)
Parsed(raw) == IF IsSome(raw) THEN Some(Get(raw).val) ELSE None
(* .optional().default(d) *)
WithDefault(raw, d) == IF IsSome(raw) THEN Get(raw).val ELSE d

MaxIds == 2

PackageIdRaws ==
    {None, RawNumber(7)} \cup
    {RawString(id) : id \in {"p1", "p2", "p3", "p4", "missing"}}

(* the parameters each tool is called with *)
Raws(tool) ==
    CASE tool = "get_package" ->
          [packageId : PackageIdRaws, summary : {None, RawBoolean(FALSE)}]
      [] tool = "get_first_datastore_resource_records" ->
          [packageId : PackageIdRaws, limit : {None, RawNumber(1), RawNumber(2)}]
      [] tool = "get_resource_records" ->
          [resourceId : {None} \cup {RawString(id) : id \in {"r1", "r2", "missing"}},
           limit : {None, RawNumber(0), RawNumber(1)},
           offset : {None, RawNumber(1)}]
      [] tool = "list_datasets" ->
          [limit : {None, RawString("2")} \cup {RawNumber(n) : n \in -1..2},
           offset : {None} \cup {RawNumber(n) : n \in -1..2}]
      [] tool = "search_datasets" ->
          [query : {None} \cup {RawString(q) : q \in {<<>>, <<"p","a","r","k","i","n","g">>}},
           limit : {None, RawNumber(0), RawNumber(1)}]
      [] tool = "find_relevant_datasets" ->
          [query : {None, RawNumber(7)} \cup {RawString(q) : q \in {<<>>, <<"p","a","r","k","i","n","g">>, <<"C","S","V">>}},
           maxResults : {None} \cup {RawNumber(n) : n \in -1..MaxResults},
           includeRelevanceScore : {None, RawBoolean(FALSE)}]
      [] tool = "analyze_dataset_updates" ->
          [query : {None, RawNumber(7), RawString(<<>>), RawString(<<"p","a","r","k","i","n","g">>)},
           packageIds : {None} \cup {RawArray(ids) : ids \in UNION {[1..n -> {"p1", "p2", "p4", "missing"}] : n \in 0..MaxIds}},
           groupByFrequency : {None, RawBoolean(FALSE)}]
      [] tool = "analyze_dataset_structure" ->
          [packageId : PackageIdRaws,
           includeDataPreview : {None, RawBoolean(TRUE)},
           previewLimit : {None, RawNumber(0), RawNumber(1)}]
      [] tool = "get_dataset_insights" ->
          [query : {None} \cup {RawString(q) : q \in {<<>>, <<"p","a","r","k","i","n","g">>, <<"C","S","V">>}},
           includeUpdateFrequency : {None, RawBoolean(FALSE)},
           includeDataStructure : {None, RawBoolean(FALSE)},
           maxDatasets : {None} \cup {RawNumber(n) : n \in -1..MaxResults}]

(* the schema of each tool *)
SchemaAccepts(tool, raw) ==
    CASE tool = "get_package" ->
          ZString(raw.packageId) /\ ZOptional(raw.summary, "boolean")
      [] tool = "get_first_datastore_resource_records" ->
          ZString(raw.packageId) /\ ZOptional(raw.limit, "number")
      [] tool = "get_resource_records" ->
          /\ ZString(raw.resourceId)
          /\ ZOptional(raw.limit, "number")
          /\ ZOptional(raw.offset, "number")
      [] tool = "list_datasets" ->
          ZOptional(raw.limit, "number") /\ ZOptional(raw.offset, "number")
      [] tool = "search_datasets" ->
          ZString(raw.query) /\ ZOptional(raw.limit, "number")
      [] tool = "find_relevant_datasets" ->
          /\ ZString(raw.query)
          /\ ZOptional(raw.maxResults, "number")
          /\ ZOptional(raw.includeRelevanceScore, "boolean")
      [] tool = "analyze_dataset_updates" ->
          /\ ZOptional(raw.query, "string")
          /\ ZOptional(raw.packageIds, "array")
          /\ ZOptional(raw.groupByFrequency, "boolean")
      [] tool = "analyze_dataset_structure" ->
          /\ ZString(raw.packageId)
          /\ ZOptional(raw.includeDataPreview, "boolean")
          /\ ZOptional(raw.previewLimit, "number")
      [] tool = "get_dataset_insights" ->
          /\ ZString(raw.query)
          /\ ZOptional(raw.includeUpdateFrequency, "boolean")
          /\ ZOptional(raw.includeDataStructure, "boolean")
          /\ ZOptional(raw.maxDatasets, "number")

(* Array.prototype.slice(start, end) *)
SliceIndex(k, len) ==
    IF k < 0 THEN (IF len + k < 0 THEN 0 ELSE len + k)
    ELSE (IF k > len THEN len ELSE k)

Slice(a, start, end) ==
    SubSeq(a, SliceIndex(start, Len(a)) + 1, SliceIndex(end, Len(a)))

(* Array.prototype.sort((a, b) => b.relevance_score - a.relevance_score):  *)
(* a stable sort, each element placed after those that do not score less. *)
(* an element placed before those that score the same *)
RECURSIVE InsertBeforeEqual(_, _)
InsertBeforeEqual(sorted, x) ==
    IF sorted = <<>> THEN <<x>>
    ELSE IF Head(sorted).relevance_score > x.relevance_score
         THEN <<Head(sorted)>> \o InsertBeforeEqual(Tail(sorted), x)
         ELSE <<x>> \o sorted

RECURSIVE InsertByScore(_, _)
InsertByScore(sorted, x) ==
    IF sorted = <<>> THEN <<x>>
    ELSE IF Head(sorted).relevance_score >= x.relevance_score
         THEN <<Head(sorted)>> \o InsertByScore(Tail(sorted), x)
         ELSE <<x>> \o sorted

RECURSIVE SortByScore(_)
SortByScore(a) ==
    IF a = <<>> THEN <<>>
    ELSE InsertByScore(SortByScore(SubSeq(a, 1, Len(a) - 1)), a[Len(a)])

(* dataset.resources?.length || 0 *)
ResourceCount(d) == IF IsSome(d.resources) THEN Len(Get(d.resources)) ELSE 0

(* every resource, whatever its flag *)
DatastoreResourcesAll(d) ==
    IF IsSome(d.resources) THEN Get(d.resources) ELSE <<>>

(* dataset.resources?.filter(r => r.datastore_active) *)
DatastoreResources(d) ==
    IF IsSome(d.resources)
    THEN SelectSeq(Get(d.resources), LAMBDA r : r.datastore_active)
    ELSE <<>>

Map(a, Op(_)) == [i \in 1..Len(a) |-> Op(a[i])]

---------------------------------------------------------------------------
(* How an invocation ends.  "result" and "error" are createToolResponse of *)
(* an object (the latter {error: message}), "text" a content item holding  *)
(* plain text, "raised" a rejected handler promise, "invalid_params" the   *)
(* schema refusing the parameters before the handler runs.                 *)

Result(body) == [kind |-> "result", body |-> body]
(* the catch taking its 'Unknown error' branch *)
ErrorResultUnknown(message) ==
    [kind |-> "error", body |-> <<message[1], "Unknown error">>]

ErrorResult(message) == [kind |-> "error", body |-> message]
Text(message) == [kind |-> "text", body |-> message]
Raised(message) == [kind |-> "raised", body |-> message]
InvalidParams == [kind |-> "invalid_params", body |-> ""]

pureVars == <<dataset, query, now, relevance, frequency, fetchReply,
              fetchOutcome, pkgNotes, truncated, pathname, routed>>

(* analyzeDatasetRelevance and getUpdateFrequencyCategory, the wrappers    *)
(* the handlers call                                                       *)
AnalyzeDatasetRelevance(d, q) == Score(d, q)
GetUpdateFrequencyCategory(d, t) == Categorize(d, t)

---------------------------------------------------------------------------
(* find_relevant_datasets *)

FindRelevantArgs(raw) ==
    [query |-> Get(raw.query).val,
     maxResults |-> WithDefault(raw.maxResults, 10),
     includeRelevanceScore |-> WithDefault(raw.includeRelevanceScore, TRUE)]

(* searchResult.results.map(...): every result scored and classified *)
ScoredDatasets(results, q, t) ==
    Map(results, LAMBDA d :
        [dataset |-> d,
         relevance_score |-> AnalyzeDatasetRelevance(d, q),
         update_frequency |-> GetUpdateFrequencyCategory(d, t),
         resource_count |-> ResourceCount(d),
         has_datastore |-> DatastoreResources(d) # <<>>])

(* the cut taken before the sort *)
SortedDatasetsCutFirst(results, q, t, maxResults) ==
    SortByScore(Slice(ScoredDatasets(results, q, t), 0, maxResults))

(* .sort(...).slice(0, maxResults) *)
SortedDatasets(results, q, t, maxResults) ==
    Slice(SortByScore(ScoredDatasets(results, q, t)), 0, maxResults)

(* const { relevance_score, ...rest } = d *)
WithoutScore(d) ==
    [dataset |-> d.dataset, relevance_score |-> None,
     update_frequency |-> d.update_frequency,
     resource_count |-> d.resource_count, has_datastore |-> d.has_datastore]

WithScore(d) ==
    [dataset |-> d.dataset, relevance_score |-> Some(d.relevance_score),
     update_frequency |-> d.update_frequency,
     resource_count |-> d.resource_count, has_datastore |-> d.has_datastore]

(* the analysis returned; facets, copied through from the search result,  *)
(* are not carried by the model's search results                          *)
FindRelevantAnalysis(searchResult, a, t) ==
    LET sortedDatasets ==
            SortedDatasets(searchResult.results, a.query, t, a.maxResults)
    IN [query |-> a.query,
        total_found |-> searchResult.count,
        returned_count |-> Len(sortedDatasets),
        datasets |-> IF a.includeRelevanceScore
                     THEN Map(sortedDatasets, WithScore)
                     ELSE Map(sortedDatasets, WithoutScore)]

(* the call arrives, the schema accepts it, the handler runs to its await *)
FindRelevantDatasets ==
    /\ pc = "idle"
    /\ \E raw \in Raws("find_relevant_datasets") :
          /\ SchemaAccepts("find_relevant_datasets", raw)
          /\ request' = Some([tool |-> "find_relevant_datasets", raw |-> raw])
          /\ args' = Some(FindRelevantArgs(raw))
          /\ calls' = <<[action |-> "package_search",
                         q |-> FindRelevantArgs(raw).query, rows |-> 100]>>
    /\ pending' = {1}
    /\ pc' = "find_relevant_datasets:search"
    /\ UNCHANGED <<locals, response, scored>>
    /\ UNCHANGED pureVars

(* the search is answered: the handler has no try/catch, so a failed call  *)
(* rejects its promise; otherwise it scores, sorts, cuts and returns       *)
FindRelevantSearched ==
    /\ pc = "find_relevant_datasets:search"
    /\ \E reply \in SearchReplies :
          LET out == CkanApiCall(reply) IN
          IF ~out.ok
          THEN /\ response' = Some(Raised(out.error.message))
               /\ UNCHANGED <<locals, scored>>
          ELSE /\ locals' = [searchResult |-> Get(out.result)]
               /\ scored' = IF Get(out.result).results = <<>> THEN scored
                            ELSE scored \cup {Get(args).query}
               /\ response' =
                     Some(Result(FindRelevantAnalysis(Get(out.result), Get(args), now)))
    /\ pending' = {}
    /\ pc' = "done"
    /\ UNCHANGED <<request, args, calls>>
    /\ UNCHANGED pureVars

---------------------------------------------------------------------------
(* analyze_dataset_updates *)

AnalyzeUpdatesArgs(raw) ==
    [query |-> Parsed(raw.query),
     packageIds |-> Parsed(raw.packageIds),
     groupByFrequency |-> WithDefault(raw.groupByFrequency, TRUE)]

(* the query counted as given whenever it is defined *)
UpdatesBranchAnyQuery(a) ==
    IF IsSome(a.packageIds) /\ Len(Get(a.packageIds)) > 0 THEN "packageIds"
    ELSE IF IsSome(a.query) THEN "query"
    ELSE "neither"

(* the query tested before the ids *)
UpdatesBranchQueryFirst(a) ==
    IF IsSome(a.query) /\ Get(a.query) # <<>> THEN "query"
    ELSE IF IsSome(a.packageIds) /\ Len(Get(a.packageIds)) > 0 THEN "packageIds"
    ELSE "neither"

(* if (packageIds && packageIds.length > 0) ... else if (query) ... else   *)
UpdatesBranch(a) ==
    IF IsSome(a.packageIds) /\ Len(Get(a.packageIds)) > 0 THEN "packageIds"
    ELSE IF IsSome(a.query) /\ Get(a.query) # <<>> THEN "query"
    ELSE "neither"

RequiredMessage == "Either query or packageIds parameter is required."

(* datasets.map(...): one entry per dataset, classified *)
UpdateAnalysis(datasets, t) ==
    Map(datasets, LAMBDA d :
        [id |-> d.id, name |-> d.name, title |-> d.title,
         update_frequency |-> GetUpdateFrequencyCategory(d, t),
         last_modified |-> d.metadata_modified,
         refresh_rate |-> d.refresh_rate,
         organization |-> IF IsSome(d.organization)
                          THEN Get(d.organization).title ELSE None,
         resource_count |-> ResourceCount(d),
         datastore_resources |-> Len(DatastoreResources(d))])

(* the keys of frequencyGroups, in the order reduce first inserts them *)
RECURSIVE FrequencyKeys(_)
FrequencyKeys(analysis) ==
    IF analysis = <<>> THEN <<>>
    ELSE LET before == FrequencyKeys(SubSeq(analysis, 1, Len(analysis) - 1))
             freq == analysis[Len(analysis)].update_frequency
         IN IF freq \in Range(before) THEN before ELSE Append(before, freq)

(* a bucket made for every dataset, not for every category *)
FrequencySummaryPerDataset(analysis) ==
    Map(analysis, LAMBDA d :
        [frequency |-> d.update_frequency,
         count |-> 1,
         datasets |-> <<[id |-> d.id, title |-> d.title]>>])

FrequencySummary(analysis) ==
    Map(FrequencyKeys(analysis), LAMBDA freq :
        LET group == SelectSeq(analysis, LAMBDA d : d.update_frequency = freq)
        IN [frequency |-> freq,
            count |-> Len(group),
            datasets |-> Map(group, LAMBDA d : [id |-> d.id, title |-> d.title])])

AnalyzeUpdatesResult(datasets, a, t) ==
    LET updateAnalysis == UpdateAnalysis(datasets, t) IN
    [total_datasets |-> Len(datasets),
     datasets |-> updateAnalysis,
     frequency_summary |-> IF a.groupByFrequency
                           THEN Some(FrequencySummary(updateAnalysis))
                           ELSE None]

(* the call arrives and the handler runs to its first await: a package     *)
(* fetch per id, all issued at once (Promise.all), or one search, or, with *)
(* neither parameter, the message and no call.                             *)
AnalyzeDatasetUpdates ==
    /\ pc = "idle"
    /\ \E raw \in Raws("analyze_dataset_updates") :
          LET a == AnalyzeUpdatesArgs(raw) IN
          /\ SchemaAccepts("analyze_dataset_updates", raw)
          /\ request' = Some([tool |-> "analyze_dataset_updates", raw |-> raw])
          /\ args' = Some(a)
          /\ \/ /\ UpdatesBranch(a) = "packageIds"
                /\ calls' = Map(Get(a.packageIds), LAMBDA id :
                                  [action |-> "package_show", id |-> id])
                /\ pending' = 1..Len(Get(a.packageIds))
                /\ locals' = [datasets |-> Map(Get(a.packageIds), LAMBDA id : None)]
                /\ pc' = "analyze_dataset_updates:packages"
                /\ UNCHANGED response
             \/ /\ UpdatesBranch(a) = "query"
                /\ calls' = <<[action |-> "package_search",
                               q |-> Get(a.query), rows |-> 100]>>
                /\ pending' = {1}
                /\ pc' = "analyze_dataset_updates:search"
                /\ UNCHANGED <<locals, response>>
             \/ /\ UpdatesBranch(a) = "neither"
                /\ response' = Some(Text(RequiredMessage))
                /\ pc' = "done"
                /\ UNCHANGED <<calls, pending, locals>>
    /\ UNCHANGED scored
    /\ UNCHANGED pureVars

(* one of the package fetches is answered.  Promise.all rejects as soon as *)
(* one fetch fails, and nothing catches it; when the last one succeeds the *)
(* handler goes on to the analysis, the datasets in the order of the ids.  *)
AnalyzeUpdatesPackageFetched ==
    /\ pc = "analyze_dataset_updates:packages"
    /\ \E i \in pending :
       \E reply \in PackageReplies(calls[i].id) :
          LET out == CkanApiCall(reply)
              fetched == [locals.datasets EXCEPT ![i] = out.result]
          IN /\ pending' = pending \ {i}
             /\ IF ~out.ok
                THEN /\ response' = Some(Raised(out.error.message))
                     /\ pc' = "done"
                     /\ UNCHANGED locals
                ELSE /\ locals' = [datasets |-> fetched]
                     /\ IF pending = {i}
                        THEN /\ response' = Some(Result(
                                    AnalyzeUpdatesResult(Map(fetched, Get), Get(args), now)))
                             /\ pc' = "done"
                        ELSE UNCHANGED <<response, pc>>
    /\ UNCHANGED <<request, args, calls, scored>>
    /\ UNCHANGED pureVars

AnalyzeUpdatesSearched ==
    /\ pc = "analyze_dataset_updates:search"
    /\ \E reply \in SearchReplies :
          LET out == CkanApiCall(reply) IN
          IF ~out.ok
          THEN /\ response' = Some(Raised(out.error.message))
               /\ UNCHANGED locals
          ELSE /\ locals' = [searchResult |-> Get(out.result)]
               /\ response' = Some(Result(
                     AnalyzeUpdatesResult(Get(out.result).results, Get(args), now)))
    /\ pending' = {}
    /\ pc' = "done"
    /\ UNCHANGED <<request, args, calls, scored>>
    /\ UNCHANGED pureVars

---------------------------------------------------------------------------
(* The datastore behind datastore_search: the table of each resource that  *)
(* has one, its total, its fields and the rows of the page asked for.      *)

DatastoreFields(id) ==
    CASE id = "r1" -> <<"_id", "fine">>
      [] id = "r3" -> <<"_id">>
      [] id = "r4" -> <<"_id", "rate">>

DatastoreRows(id) ==
    CASE id = "r1" -> <<[_id |-> 1], [_id |-> 2], [_id |-> 3]>>
      [] id = "r3" -> <<>>
      [] id = "r4" -> <<[_id |-> 1]>>

DatastoreSearch(id, limit, offset) ==
    [total |-> Len(DatastoreRows(id)),
     fields |-> DatastoreFields(id),
     records |-> Slice(DatastoreRows(id), offset, offset + limit)]

(* what datastore_search answers: the page, or a failure *)
DatastoreReplies(id, limit, offset) ==
    Failures \cup {Success(DatastoreSearch(i, limit, offset)) :
                      i \in {x \in {"r1", "r3", "r4"} : x = id}}

(* what package_list answers: the names of the packages, or a failure *)
PackageListReplies ==
    Failures \cup
    {Success(l) :
        l \in {<<>>, <<"green-p-parking", "parking-tickets", "sparse", "traffic-signals">>}}

---------------------------------------------------------------------------
(* SummaryBuilder.package; the fields a package is only copied from        *)
(* (metadata_created, the url) are not carried by the model's packages.    *)

MaxLength == 200
Ellipsis == <<".", ".", ".">>
Unknown == <<"U","n","k","n","o","w","n">>

(* the cut made at maxLength characters already *)
TruncateDescriptionAtLimit(notes) ==
    IF ~IsSome(notes) \/ Get(notes) = <<>> THEN <<>>
    ELSE IF Len(Get(notes)) >= MaxLength
         THEN SubSeq(Get(notes), 1, MaxLength) \o Ellipsis
         ELSE Get(notes)

(* SummaryBuilder.truncateDescription *)
TruncateDescription(notes) ==
    IF ~IsSome(notes) \/ Get(notes) = <<>> THEN <<>>
    ELSE IF Len(Get(notes)) > MaxLength
         THEN SubSeq(Get(notes), 1, MaxLength) \o Ellipsis
         ELSE Get(notes)

(* truncateDescription on its own: notes absent, or of any length up to    *)
(* MaxNotes, their characters alternating from either letter               *)
MaxNotes == 250

NotesInputs ==
    {None} \cup {Some([i \in 1..n |-> IF i % 2 = first THEN "a" ELSE "b"]) :
                    n \in 0..MaxNotes, first \in {0, 1}}

InitTruncate ==
    /\ pkgNotes \in NotesInputs
    /\ truncated = None
    /\ fetchReply = None
    /\ fetchOutcome = None
    /\ pathname = None
    /\ routed = None
    /\ dataset = None
    /\ query = <<>>
    /\ now = 0
    /\ relevance = None
    /\ frequency = None
    /\ HandlerIdle

CallTruncateDescription ==
    /\ truncated = None
    /\ truncated' = Some(TruncateDescription(pkgNotes))
    /\ UNCHANGED <<pkgNotes, fetchReply, fetchOutcome, pathname, routed>>
    /\ UNCHANGED <<dataset, query, now, relevance, frequency>>
    /\ UNCHANGED handlerVars

SpecTruncate == InitTruncate /\ [][CallTruncateDescription]_vars

(* pkg.organization?.title *)
OrganizationTitle(pkg) ==
    IF IsSome(pkg.organization) THEN Get(pkg.organization).title ELSE None

(* pkg.tags?.map(tag => tag.name) *)
TagNames(pkg) ==
    IF IsSome(pkg.tags)
    THEN Some(Map(Get(pkg.tags), LAMBDA tag : tag.name))
    ELSE None

PackageSummary(pkg) ==
    [id |-> pkg.id,
     name |-> pkg.name,
     title |-> pkg.title,
     description |-> TruncateDescription(pkg.notes),
     organization |-> IF IsSome(OrganizationTitle(pkg))
                         /\ Get(OrganizationTitle(pkg)) # <<>>
                      THEN Get(OrganizationTitle(pkg)) ELSE Unknown,
     tags |-> IF IsSome(TagNames(pkg))
              THEN Slice(Get(TagNames(pkg)), 0, 5) ELSE <<>>,
     last_modified |-> pkg.metadata_modified,
     resource_count |-> ResourceCount(pkg),
     datastore_resources |-> Len(DatastoreResources(pkg))]

(* limit || 10, offset || 0: zero counts as absent *)
OrElse(n, d) == IF n = 0 THEN d ELSE n

---------------------------------------------------------------------------
(* get_package *)

GetPackageArgs(raw) ==
    [packageId |-> Get(raw.packageId).val,
     summary |-> WithDefault(raw.summary, TRUE)]

GetPackage ==
    /\ pc = "idle"
    /\ \E raw \in Raws("get_package") :
          /\ SchemaAccepts("get_package", raw)
          /\ request' = Some([tool |-> "get_package", raw |-> raw])
          /\ args' = Some(GetPackageArgs(raw))
          /\ calls' = <<[action |-> "package_show",
                         id |-> GetPackageArgs(raw).packageId]>>
    /\ pending' = {1}
    /\ pc' = "get_package:package"
    /\ UNCHANGED <<locals, response, scored>>
    /\ UNCHANGED pureVars

(* the fetch is answered; the handler's catch turns a failure into a       *)
(* result carrying {error}                                                 *)
GetPackageFetched ==
    /\ pc = "get_package:package"
    /\ \E reply \in PackageReplies(calls[1].id) :
          LET out == CkanApiCall(reply) IN
          response' = Some(
              IF ~out.ok
              THEN ErrorResult(<<"Failed to fetch package: ">> \o out.error.message)
              ELSE IF Get(args).summary
                   THEN Result(PackageSummary(Get(out.result)))
                   ELSE Result(Get(out.result)))
    /\ pending' = {}
    /\ pc' = "done"
    /\ UNCHANGED <<request, args, calls, locals, scored>>
    /\ UNCHANGED pureVars

---------------------------------------------------------------------------
(* get_first_datastore_resource_records *)

GetFirstArgs(raw) ==
    [packageId |-> Get(raw.packageId).val,
     limit |-> WithDefault(raw.limit, 10)]

GetFirstDatastoreResourceRecords ==
    /\ pc = "idle"
    /\ \E raw \in Raws("get_first_datastore_resource_records") :
          /\ SchemaAccepts("get_first_datastore_resource_records", raw)
          /\ request' = Some([tool |-> "get_first_datastore_resource_records",
                              raw |-> raw])
          /\ args' = Some(GetFirstArgs(raw))
          /\ calls' = <<[action |-> "package_show",
                         id |-> GetFirstArgs(raw).packageId]>>
    /\ pending' = {1}
    /\ pc' = "get_first_datastore_resource_records:package"
    /\ UNCHANGED <<locals, response, scored>>
    /\ UNCHANGED pureVars

(* the package is answered: a failure is caught; a package without an      *)
(* active resource ends the call; otherwise the first one is read          *)
GetFirstPackageFetched ==
    /\ pc = "get_first_datastore_resource_records:package"
    /\ \E reply \in PackageReplies(calls[1].id) :
          LET out == CkanApiCall(reply) IN
          IF ~out.ok
          THEN /\ response' = Some(ErrorResult(
                      <<"Failed to fetch resource records: ">> \o out.error.message))
               /\ pending' = {}
               /\ pc' = "done"
               /\ UNCHANGED <<calls, locals>>
          ELSE LET dsResources == DatastoreResources(Get(out.result)) IN
               IF dsResources = <<>>
               THEN /\ response' = Some(Result(
                           [message |-> "No active datastore resources found."]))
                    /\ pending' = {}
                    /\ pc' = "done"
                    /\ UNCHANGED <<calls, locals>>
               ELSE /\ calls' = Append(calls,
                           [action |-> "datastore_search",
                            id |-> dsResources[1].id,
                            limit |-> Get(args).limit, offset |-> 0])
                    /\ locals' = [dsResources |-> dsResources]
                    /\ pending' = {2}
                    /\ pc' = "get_first_datastore_resource_records:records"
                    /\ UNCHANGED response
    /\ UNCHANGED <<request, args, scored>>
    /\ UNCHANGED pureVars

GetFirstRecordsFetched ==
    /\ pc = "get_first_datastore_resource_records:records"
    /\ \E reply \in DatastoreReplies(calls[2].id, calls[2].limit, calls[2].offset) :
          LET out == CkanApiCall(reply) IN
          response' = Some(
              IF ~out.ok
              THEN ErrorResult(<<"Failed to fetch resource records: ">> \o out.error.message)
              ELSE Result([resource_id |-> locals.dsResources[1].id,
                           resource_name |-> locals.dsResources[1].name,
                           total_records |-> Get(out.result).total,
                           returned_records |-> Len(Get(out.result).records),
                           fields |-> Get(out.result).fields,
                           records |-> Get(out.result).records]))
    /\ pending' = {}
    /\ pc' = "done"
    /\ UNCHANGED <<request, args, calls, locals, scored>>
    /\ UNCHANGED pureVars

---------------------------------------------------------------------------
(* get_resource_records *)

GetResourceRecordsArgs(raw) ==
    [resourceId |-> Get(raw.resourceId).val,
     limit |-> WithDefault(raw.limit, 10),
     offset |-> WithDefault(raw.offset, 0)]

GetResourceRecords ==
    /\ pc = "idle"
    /\ \E raw \in Raws("get_resource_records") :
          LET a == GetResourceRecordsArgs(raw) IN
          /\ SchemaAccepts("get_resource_records", raw)
          /\ request' = Some([tool |-> "get_resource_records", raw |-> raw])
          /\ args' = Some(a)
          /\ calls' = <<[action |-> "datastore_search", id |-> a.resourceId,
                         limit |-> OrElse(a.limit, 10),
                         offset |-> OrElse(a.offset, 0)]>>
    /\ pending' = {1}
    /\ pc' = "get_resource_records:records"
    /\ UNCHANGED <<locals, response, scored>>
    /\ UNCHANGED pureVars

GetResourceRecordsFetched ==
    /\ pc = "get_resource_records:records"
    /\ \E reply \in DatastoreReplies(calls[1].id, calls[1].limit, calls[1].offset) :
          LET out == CkanApiCall(reply) IN
          response' = Some(
              IF ~out.ok
              THEN ErrorResult(<<"Failed to fetch resource records: ">> \o out.error.message)
              ELSE Result([resource_id |-> Get(args).resourceId,
                           total_records |-> Get(out.result).total,
                           returned_records |-> Len(Get(out.result).records),
                           limit |-> OrElse(Get(args).limit, 10),
                           offset |-> OrElse(Get(args).offset, 0),
                           fields |-> Get(out.result).fields,
                           records |-> Get(out.result).records]))
    /\ pending' = {}
    /\ pc' = "done"
    /\ UNCHANGED <<request, args, calls, locals, scored>>
    /\ UNCHANGED pureVars

---------------------------------------------------------------------------
(* list_datasets *)

ListDatasetsArgs(raw) ==
    [limit |-> WithDefault(raw.limit, 50),
     offset |-> WithDefault(raw.offset, 0)]

ListDatasets ==
    /\ pc = "idle"
    /\ \E raw \in Raws("list_datasets") :
          /\ SchemaAccepts("list_datasets", raw)
          /\ request' = Some([tool |-> "list_datasets", raw |-> raw])
          /\ args' = Some(ListDatasetsArgs(raw))
    /\ calls' = <<[action |-> "package_list"]>>
    /\ pending' = {1}
    /\ pc' = "list_datasets:list"
    /\ UNCHANGED <<locals, response, scored>>
    /\ UNCHANGED pureVars

ListDatasetsSummary(fullList, a) ==
    LET startIndex == OrElse(a.offset, 0)
        endIndex == startIndex + OrElse(a.limit, 50)
        limitedList == Slice(fullList, startIndex, endIndex)
    IN [total_datasets |-> Len(fullList),
        returned_count |-> Len(limitedList),
        offset |-> startIndex,
        limit |-> OrElse(a.limit, 50),
        dataset_ids |-> limitedList]

ListDatasetsFetched ==
    /\ pc = "list_datasets:list"
    /\ \E reply \in PackageListReplies :
          LET out == CkanApiCall(reply) IN
          IF ~out.ok
          THEN /\ response' = Some(ErrorResult(
                      <<"Failed to list datasets: ">> \o out.error.message))
               /\ UNCHANGED locals
          ELSE /\ locals' = [fullList |-> Get(out.result)]
               /\ response' = Some(Result(
                      ListDatasetsSummary(Get(out.result), Get(args))))
    /\ pending' = {}
    /\ pc' = "done"
    /\ UNCHANGED <<request, args, calls, scored>>
    /\ UNCHANGED pureVars

---------------------------------------------------------------------------
(* search_datasets *)

SearchDatasetsArgs(raw) ==
    [query |-> Get(raw.query).val, limit |-> WithDefault(raw.limit, 20)]

SearchDatasets ==
    /\ pc = "idle"
    /\ \E raw \in Raws("search_datasets") :
          /\ SchemaAccepts("search_datasets", raw)
          /\ request' = Some([tool |-> "search_datasets", raw |-> raw])
          /\ args' = Some(SearchDatasetsArgs(raw))
          /\ calls' = <<[action |-> "package_search",
                         q |-> SearchDatasetsArgs(raw).query]>>
    /\ pending' = {1}
    /\ pc' = "search_datasets:search"
    /\ UNCHANGED <<locals, response, scored>>
    /\ UNCHANGED pureVars

SearchDatasetsSummary(result, a) ==
    LET limitedResults ==
            Map(Slice(result.results, 0, OrElse(a.limit, 20)), PackageSummary)
    IN [query |-> a.query,
        total_found |-> result.count,
        returned_count |-> Len(limitedResults),
        datasets |-> limitedResults]

SearchDatasetsFetched ==
    /\ pc = "search_datasets:search"
    /\ \E reply \in SearchReplies :
          LET out == CkanApiCall(reply) IN
          response' = Some(
              IF ~out.ok
              THEN ErrorResult(<<"Failed to search datasets: ">> \o out.error.message)
              ELSE Result(SearchDatasetsSummary(Get(out.result), Get(args))))
    /\ pending' = {}
    /\ pc' = "done"
    /\ UNCHANGED <<request, args, calls, locals, scored>>
    /\ UNCHANGED pureVars

---------------------------------------------------------------------------
(* analyze_dataset_structure *)

(* [...new Set(a)]: the distinct elements, in the order they first appear *)
RECURSIVE Distinct(_)
Distinct(a) ==
    IF a = <<>> THEN <<>>
    ELSE LET before == Distinct(SubSeq(a, 1, Len(a) - 1)) IN
         IF a[Len(a)] \in Range(before) THEN before
         ELSE Append(before, a[Len(a)])

AnalyzeStructureArgs(raw) ==
    [packageId |-> Get(raw.packageId).val,
     includeDataPreview |-> WithDefault(raw.includeDataPreview, FALSE),
     previewLimit |-> WithDefault(raw.previewLimit, 5)]

AnalyzeDatasetStructure ==
    /\ pc = "idle"
    /\ \E raw \in Raws("analyze_dataset_structure") :
          /\ SchemaAccepts("analyze_dataset_structure", raw)
          /\ request' = Some([tool |-> "analyze_dataset_structure", raw |-> raw])
          /\ args' = Some(AnalyzeStructureArgs(raw))
          /\ calls' = <<[action |-> "package_show",
                         id |-> AnalyzeStructureArgs(raw).packageId]>>
    /\ pending' = {1}
    /\ pc' = "analyze_dataset_structure:package"
    /\ UNCHANGED <<locals, response, scored>>
    /\ UNCHANGED pureVars

(* resourceInfo as it is first built *)
ResourceInfo(resource) ==
    [id |-> resource.id, name |-> resource.name, format |-> resource.format,
     datastore_active |-> resource.datastore_active,
     fields |-> None, record_count |-> None, sample_data |-> None]

(* the records of the resources still flagged active only *)
RECURSIVE TotalRecordsOfActive(_)
TotalRecordsOfActive(infos) ==
    IF infos = <<>> THEN 0
    ELSE TotalRecordsOfActive(SubSeq(infos, 1, Len(infos) - 1))
         + (IF infos[Len(infos)].datastore_active
               /\ IsSome(infos[Len(infos)].record_count)
            THEN Get(infos[Len(infos)].record_count) ELSE 0)

(* reduce((sum, r) => sum + (r.record_count || 0), 0) *)
RECURSIVE TotalRecords(_)
TotalRecords(infos) ==
    IF infos = <<>> THEN 0
    ELSE TotalRecords(SubSeq(infos, 1, Len(infos) - 1))
         + (IF IsSome(infos[Len(infos)].record_count)
            THEN Get(infos[Len(infos)].record_count) ELSE 0)

StructureAnalysis(pkg, resourceAnalysis, t) ==
    [package_id |-> pkg.id,
     name |-> pkg.name,
     title |-> pkg.title,
     description |-> pkg.notes,
     tags |-> IF IsSome(TagNames(pkg)) THEN Get(TagNames(pkg)) ELSE <<>>,
     organization |-> OrganizationTitle(pkg),
     last_modified |-> pkg.metadata_modified,
     update_frequency |-> GetUpdateFrequencyCategory(pkg, t),
     resource_summary |->
        [total_resources |-> Len(Get(pkg.resources)),
         datastore_resources |->
            Len(SelectSeq(resourceAnalysis, LAMBDA r : r.datastore_active)),
         formats |-> Distinct(Map(Get(pkg.resources), LAMBDA r : r.format)),
         total_records |-> TotalRecords(resourceAnalysis)],
     resources |-> resourceAnalysis]

(* the probe of a resource: datastore_search with limit=0 *)
Probe(resource) ==
    [action |-> "datastore_search", id |-> resource.id, limit |-> 0, offset |-> 0]

(* the package is answered.  Nothing catches a failure here.  Otherwise    *)
(* every resource's callback runs to its first await: the active ones each *)
(* issue their probe, the others are finished at once.                     *)
AnalyzeStructurePackageFetched ==
    /\ pc = "analyze_dataset_structure:package"
    /\ \E reply \in PackageReplies(calls[1].id) :
          LET out == CkanApiCall(reply) IN
          IF ~out.ok
          THEN /\ response' = Some(Raised(out.error.message))
               /\ pending' = {}
               /\ pc' = "done"
               /\ UNCHANGED <<calls, locals>>
          ELSE LET pkg == Get(out.result) IN
               IF ~IsSome(pkg.resources)
               THEN /\ response' = Some(Raised(<<"TypeError">>))
                    /\ pending' = {}
                    /\ pc' = "done"
                    /\ UNCHANGED <<calls, locals>>
               ELSE LET infos == Map(Get(pkg.resources), ResourceInfo)
                        probes == Map(DatastoreResources(pkg), Probe)
                    IN /\ calls' = calls \o probes
                       /\ pending' = 2..(1 + Len(probes))
                       /\ locals' = [pkg |-> pkg, resources |-> infos]
                       /\ IF probes = <<>>
                          THEN /\ response' = Some(Result(
                                      StructureAnalysis(pkg, infos, now)))
                               /\ pc' = "done"
                          ELSE /\ pc' = "analyze_dataset_structure:resources"
                               /\ UNCHANGED response
    /\ UNCHANGED <<request, args, scored>>
    /\ UNCHANGED pureVars

(* the catch left empty: a failure leaves resourceInfo as it was *)
ResourceInfoAfterIgnoresFailure(info, out, isProbe) ==
    IF ~out.ok THEN info
    ELSE IF isProbe
    THEN [info EXCEPT !.fields = Some(Get(out.result).fields),
                      !.record_count = Some(Get(out.result).total)]
    ELSE [info EXCEPT !.sample_data = Some(Get(out.result).records)]

(* resourceInfo after an answer to its probe (isProbe) or to its sample:   *)
(* the try block's assignments, or the catch's                             *)
ResourceInfoAfter(info, out, isProbe) ==
    IF ~out.ok THEN [info EXCEPT !.datastore_active = FALSE]
    ELSE IF isProbe
    THEN [info EXCEPT !.fields = Some(Get(out.result).fields),
                      !.record_count = Some(Get(out.result).total)]
    ELSE [info EXCEPT !.sample_data = Some(Get(out.result).records)]

(* a probe or a sample of one resource is answered, inside that resource's *)
(* try: a failure marks the resource inactive; a probe that succeeds fills *)
(* fields and record_count and, when a preview is asked for, issues the    *)
(* sample; a sample that succeeds fills sample_data.  When the last        *)
(* resource is finished the analysis is returned.                          *)
AnalyzeStructureResourceFetched ==
    /\ pc = "analyze_dataset_structure:resources"
    /\ \E i \in pending :
       \E reply \in DatastoreReplies(calls[i].id, calls[i].limit, calls[i].offset) :
          LET out == CkanApiCall(reply)
              k == CHOOSE j \in 1..Len(locals.resources) :
                       locals.resources[j].id = calls[i].id
              info == locals.resources[k]
              isProbe == calls[i].limit = 0
              wantsSample == /\ out.ok
                             /\ isProbe
                             /\ Get(args).includeDataPreview
                             /\ OrElse(Get(args).previewLimit, 0) > 0
              after == ResourceInfoAfter(info, out, isProbe)
              infos == [locals.resources EXCEPT ![k] = after]
              left == pending \ {i}
          IN /\ locals' = [locals EXCEPT !.resources = infos]
             /\ IF wantsSample
                THEN /\ calls' = Append(calls,
                            [action |-> "datastore_search", id |-> info.id,
                             limit |-> OrElse(Get(args).previewLimit, 5),
                             offset |-> 0])
                     /\ pending' = left \cup {Len(calls) + 1}
                     /\ UNCHANGED <<response, pc>>
                ELSE /\ pending' = left
                     /\ UNCHANGED calls
                     /\ IF left = {}
                        THEN /\ response' = Some(Result(
                                    StructureAnalysis(locals.pkg, infos, now)))
                             /\ pc' = "done"
                        ELSE UNCHANGED <<response, pc>>
    /\ UNCHANGED <<request, args, scored>>
    /\ UNCHANGED pureVars

---------------------------------------------------------------------------
(* get_data_categories *)

CategoryReplies(i) ==
    Failures \cup
    {Success(l) :
        l \in IF i = 1
              THEN
                {<<>>,
                 <<[id |-> "o1", name |-> "police", title |-> <<"P","o","l","i","c","e">>, package_count |-> 1],
                   [id |-> "o2", name |-> "transportation", title |-> <<"T","r","a","n","s","p","o","r","t","a","t","i","o","n">>,
                    package_count |-> 1]>>}
              ELSE
                {<<>>,
                 <<[id |-> "g1", name |-> "mobility", title |-> <<"M","o","b","i","l","i","t","y">>, package_count |-> 3]>>}}

CategoryEntry(c) ==
    [id |-> c.id, name |-> c.name, title |-> c.title,
     package_count |-> c.package_count]

(* the call takes no parameter; both lists are asked for at once *)
GetDataCategories ==
    /\ pc = "idle"
    /\ request' = Some([tool |-> "get_data_categories", raw |-> None])
    /\ args' = Some(None)
    /\ calls' = <<[action |-> "organization_list"], [action |-> "group_list"]>>
    /\ pending' = {1, 2}
    /\ locals' = <<None, None>>
    /\ pc' = "get_data_categories:lists"
    /\ UNCHANGED <<response, scored>>
    /\ UNCHANGED pureVars

(* one of the two lists is answered: Promise.all rejects on the first      *)
(* failure and nothing catches it; with both lists the result is returned  *)
GetDataCategoriesFetched ==
    /\ pc = "get_data_categories:lists"
    /\ \E i \in pending :
       \E reply \in CategoryReplies(i) :
          LET out == CkanApiCall(reply)
              lists == [locals EXCEPT ![i] = out.result]
          IN /\ pending' = pending \ {i}
             /\ IF ~out.ok
                THEN /\ response' = Some(Raised(out.error.message))
                     /\ pc' = "done"
                     /\ UNCHANGED locals
                ELSE /\ locals' = lists
                     /\ IF pending = {i}
                        THEN /\ response' = Some(Result(
                                    [organizations |-> Map(Get(lists[1]), CategoryEntry),
                                     groups |-> Map(Get(lists[2]), CategoryEntry)]))
                             /\ pc' = "done"
                        ELSE UNCHANGED <<response, pc>>
    /\ UNCHANGED <<request, args, calls, scored>>
    /\ UNCHANGED pureVars

---------------------------------------------------------------------------
(* get_dataset_insights *)

InsightsArgs(raw) ==
    [query |-> Get(raw.query).val,
     includeUpdateFrequency |-> WithDefault(raw.includeUpdateFrequency, TRUE),
     includeDataStructure |-> WithDefault(raw.includeDataStructure, TRUE),
     maxDatasets |-> WithDefault(raw.maxDatasets, 5)]

GetDatasetInsights ==
    /\ pc = "idle"
    /\ \E raw \in Raws("get_dataset_insights") :
          /\ SchemaAccepts("get_dataset_insights", raw)
          /\ request' = Some([tool |-> "get_dataset_insights", raw |-> raw])
          /\ args' = Some(InsightsArgs(raw))
          /\ calls' = <<[action |-> "package_search",
                         q |-> InsightsArgs(raw).query, rows |-> 50]>>
    /\ pending' = {1}
    /\ pc' = "get_dataset_insights:search"
    /\ UNCHANGED <<locals, response, scored>>
    /\ UNCHANGED pureVars

(* .map(...relevance_score).sort(...).slice(0, maxDatasets) *)
InsightsScoredDatasets(results, q, maxDatasets) ==
    Slice(SortByScore(Map(results, LAMBDA d :
              [dataset |-> d,
               relevance_score |-> AnalyzeDatasetRelevance(d, q)])),
          0, maxDatasets)

(* additionalInfo.data_structure in its three forms *)
DataStructure(d, recordCount, fields, error, message) ==
    [record_count |-> recordCount, fields |-> fields,
     error |-> error, message |-> message,
     resource_count |-> ResourceCount(d),
     datastore_resources |-> Len(DatastoreResources(d))]

(* data_structure of a dataset before any probe is answered: absent when   *)
(* not asked for, the message when there is no active resource             *)
InitialStructure(d, a) ==
    IF a.includeDataStructure /\ DatastoreResources(d) = <<>>
    THEN Some(DataStructure(d, None, None, "", "No active datastore resources"))
    ELSE None

RECURSIVE Flatten(_)
Flatten(lists) ==
    IF lists = <<>> THEN <<>> ELSE Head(lists) \o Flatten(Tail(lists))

(* scoredDatasets.flatMap(d => d.tags?.map(tag => tag.name) || []) *)
TagsObserved(scoredDatasets) ==
    Flatten(Map(scoredDatasets, LAMBDA s :
        IF IsSome(TagNames(s.dataset)) THEN Get(TagNames(s.dataset)) ELSE <<>>))

(* the distinct tags, all of them *)
CommonTagsUncut(scoredDatasets) ==
    Distinct(TagsObserved(scoredDatasets))

(* [...new Set(...)].slice(0, 10) *)
CommonTags(scoredDatasets) ==
    Slice(Distinct(TagsObserved(scoredDatasets)), 0, 10)

InsightsResult(searchResult, scoredDatasets, structures, a, t) ==
    [query |-> a.query,
     total_found |-> searchResult.count,
     analyzed_datasets |-> Len(scoredDatasets),
     insights |->
        [k \in 1..Len(scoredDatasets) |->
            LET d == scoredDatasets[k].dataset IN
            [id |-> d.id, name |-> d.name, title |-> d.title,
             description |-> d.notes,
             relevance_score |-> scoredDatasets[k].relevance_score,
             organization |-> OrganizationTitle(d),
             tags |-> IF IsSome(TagNames(d)) THEN Get(TagNames(d)) ELSE <<>>,
             update_info |->
                IF a.includeUpdateFrequency
                THEN Some([frequency |-> GetUpdateFrequencyCategory(d, t),
                           last_modified |-> d.metadata_modified,
                           refresh_rate |-> d.refresh_rate])
                ELSE None,
             data_structure |-> structures[k]]],
     query_suggestions |->
        [organizations |->
            Distinct(Map(SelectSeq(scoredDatasets, LAMBDA s :
                             /\ IsSome(OrganizationTitle(s.dataset))
                             /\ Get(OrganizationTitle(s.dataset)) # <<>>),
                         LAMBDA s : Get(OrganizationTitle(s.dataset)))),
         common_tags |-> CommonTags(scoredDatasets)]]

(* the datasets whose callback awaits a probe, in order *)
ProbedDatasets(scoredDatasets, a) ==
    SelectSeq(scoredDatasets, LAMBDA s :
        a.includeDataStructure /\ DatastoreResources(s.dataset) # <<>>)

(* the search is answered.  Nothing catches a failure here.  Otherwise the *)
(* results are scored, sorted and cut, and every dataset's callback runs   *)
(* to its first await: a probe of its first active resource, if asked for. *)
GetDatasetInsightsSearched ==
    /\ pc = "get_dataset_insights:search"
    /\ \E reply \in SearchReplies :
          LET out == CkanApiCall(reply) IN
          IF ~out.ok
          THEN /\ response' = Some(Raised(out.error.message))
               /\ pending' = {}
               /\ pc' = "done"
               /\ UNCHANGED <<calls, locals, scored>>
          ELSE LET searchResult == Get(out.result)
                   scoredDatasets == InsightsScoredDatasets(
                       searchResult.results, Get(args).query, Get(args).maxDatasets)
                   structures == Map(scoredDatasets, LAMBDA s :
                                        InitialStructure(s.dataset, Get(args)))
                   probes == Map(ProbedDatasets(scoredDatasets, Get(args)),
                                 LAMBDA s : Probe(DatastoreResources(s.dataset)[1]))
               IN /\ scored' = IF searchResult.results = <<>> THEN scored
                               ELSE scored \cup {Get(args).query}
                  /\ calls' = calls \o probes
                  /\ pending' = 2..(1 + Len(probes))
                  /\ locals' = [searchResult |-> searchResult,
                                scoredDatasets |-> scoredDatasets,
                                structures |-> structures]
                  /\ IF probes = <<>>
                     THEN /\ response' = Some(Result(InsightsResult(
                                 searchResult, scoredDatasets, structures,
                                 Get(args), now)))
                          /\ pc' = "done"
                     ELSE /\ pc' = "get_dataset_insights:probes"
                          /\ UNCHANGED response
    /\ UNCHANGED <<request, args>>
    /\ UNCHANGED pureVars

(* a probe is answered, inside that dataset's try: a failure leaves the    *)
(* error note, a success the record count and the fields.  When the last   *)
(* dataset is finished the result is returned.                             *)
GetDatasetInsightsProbed ==
    /\ pc = "get_dataset_insights:probes"
    /\ \E i \in pending :
       \E reply \in DatastoreReplies(calls[i].id, calls[i].limit, calls[i].offset) :
          LET out == CkanApiCall(reply)
              k == CHOOSE j \in 1..Len(locals.scoredDatasets) :
                     LET rs == DatastoreResources(locals.scoredDatasets[j].dataset)
                     IN rs # <<>> /\ rs[1].id = calls[i].id
              d == locals.scoredDatasets[k].dataset
              structure ==
                 IF ~out.ok
                 THEN DataStructure(d, None, None,
                                    "Could not fetch datastore info", "")
                 ELSE DataStructure(d, Some(Get(out.result).total),
                                    Some(Get(out.result).fields), "", "")
              structures == [locals.structures EXCEPT ![k] = Some(structure)]
          IN /\ pending' = pending \ {i}
             /\ locals' = [locals EXCEPT !.structures = structures]
             /\ IF pending = {i}
                THEN /\ response' = Some(Result(InsightsResult(
                            locals.searchResult, locals.scoredDatasets,
                            structures, Get(args), now)))
                     /\ pc' = "done"
                ELSE UNCHANGED <<response, pc>>
    /\ UNCHANGED <<request, args, calls, scored>>
    /\ UNCHANGED pureVars

---------------------------------------------------------------------------
(* The tool layer: a call arrives; its parameters are parsed with the      *)
(* tool's schema, which either refuses them or hands them to the handler.  *)

Tools ==
    {"get_package", "get_first_datastore_resource_records",
     "get_resource_records", "list_datasets", "search_datasets",
     "find_relevant_datasets", "analyze_dataset_updates",
     "analyze_dataset_structure", "get_dataset_insights"}

(* the schema refuses the parameters: the handler is not called *)
Rejected ==
    /\ pc = "idle"
    /\ \E tool \in Tools :
       \E raw \in Raws(tool) :
          /\ ~SchemaAccepts(tool, raw)
          /\ request' = Some([tool |-> tool, raw |-> raw])
    /\ response' = Some(InvalidParams)
    /\ pc' = "done"
    /\ UNCHANGED <<args, calls, pending, locals, scored>>
    /\ UNCHANGED pureVars

Init ==
    /\ HandlerIdle
    /\ HelpersIdle
    /\ dataset = None
    /\ query = <<>>
    /\ now = 100
    /\ relevance = None
    /\ frequency = None

Next ==
    \/ Rejected
    \/ GetPackage
    \/ GetPackageFetched
    \/ GetFirstDatastoreResourceRecords
    \/ GetFirstPackageFetched
    \/ GetFirstRecordsFetched
    \/ GetResourceRecords
    \/ GetResourceRecordsFetched
    \/ ListDatasets
    \/ ListDatasetsFetched
    \/ SearchDatasets
    \/ SearchDatasetsFetched
    \/ FindRelevantDatasets
    \/ FindRelevantSearched
    \/ AnalyzeDatasetUpdates
    \/ AnalyzeUpdatesPackageFetched
    \/ AnalyzeUpdatesSearched
    \/ AnalyzeDatasetStructure
    \/ AnalyzeStructurePackageFetched
    \/ AnalyzeStructureResourceFetched
    \/ GetDataCategories
    \/ GetDataCategoriesFetched
    \/ GetDatasetInsights
    \/ GetDatasetInsightsSearched
    \/ GetDatasetInsightsProbed

Spec == Init /\ [][Next]_vars

---------------------------------------------------------------------------
(* Properties of the tool handlers                                         *)

(* the tool call being served *)
Invoked(tool) == IsSome(request) /\ Get(request).tool = tool
Ended(kind) == IsSome(response) /\ Get(response).kind = kind

(* C7: every tool handler catches every failure of a catalog call or of a  *)
(* later step and returns {error: message}: no invocation of any of the    *)
(* ten tools ends by raising to the transport layer.                       *)
C7_NoInvocationRaises ==
    ~Ended("raised")

(* C8: find_relevant_datasets, for any list of catalog results and any     *)
(* maxResults n >= 0, returns at most n datasets (as many as there are, up *)
(* to n), in non-increasing order of relevance score, each of them one of  *)
(* the catalog's results, and every result it dropped scores no more than  *)
(* every result it kept.                                                   *)
C8_TruncationKeepsTheBest ==
    (Invoked("find_relevant_datasets") /\ Ended("result")
        /\ Get(args).maxResults >= 0) =>
    LET n == Get(args).maxResults
        q == Get(args).query
        all == locals.searchResult.results
        out == Get(response).body.datasets
        kept == {out[i].dataset : i \in 1..Len(out)}
        dropped == Range(all) \ kept
    IN /\ Get(response).body.returned_count = Len(out)
       /\ Len(out) <= n
       /\ Len(out) = (IF Len(all) < n THEN Len(all) ELSE n)
       /\ \A i, j \in 1..Len(out) :
             i < j => Score(out[i].dataset, q) >= Score(out[j].dataset, q)
       /\ \A i \in 1..Len(out) :
             IsSome(out[i].relevance_score) =>
                Get(out[i].relevance_score) = Score(out[i].dataset, q)
       /\ kept \subseteq Range(all)
       /\ \A d \in dropped : \A k \in kept : Score(d, q) <= Score(k, q)

(* a call that cut three results to one, the one kept not the first listed *)
C8_Witness ==
    /\ Invoked("find_relevant_datasets")
    /\ Ended("result")
    /\ Get(args).maxResults = 1
    /\ Get(response).body.total_found = 100
    /\ Len(locals.searchResult.results) = 3
    /\ Len(Get(response).body.datasets) = 1
    /\ Get(response).body.datasets[1].dataset # locals.searchResult.results[1]
    /\ Score(locals.searchResult.results[1], Get(args).query)
          < Score(Get(response).body.datasets[1].dataset, Get(args).query)

(* the query parameter of a call: absent, not a string, or the empty one *)
QueryTools ==
    {"find_relevant_datasets", "search_datasets", "get_dataset_insights"}

InvalidQuery(raw) ==
    \/ ~IsSome(raw.query)
    \/ Get(raw.query).kind # "string"
    \/ Get(raw.query).val = <<>>

(* C9: a tool call whose query is empty or otherwise invalid is rejected   *)
(* with a parameter-validation error before any catalog call is issued and *)
(* before score is evaluated; score is never invoked with the empty query. *)
C9_InvalidQueryRejected ==
    /\ \A tool \in QueryTools :
          (Invoked(tool) /\ InvalidQuery(Get(request).raw)) =>
             (Ended("invalid_params") /\ calls = <<>>)
    /\ <<>> \notin scored

(* analyze_dataset_updates' parameters name neither a query nor an id *)
NeitherGiven(raw) ==
    /\ \/ ~IsSome(raw.query)
       \/ Get(raw.query).kind = "string" /\ Get(raw.query).val = <<>>
    /\ \/ ~IsSome(raw.packageIds)
       \/ Get(raw.packageIds).kind = "array" /\ Get(raw.packageIds).val = <<>>

(* C10: analyze_dataset_updates called with neither a query nor packageIds *)
(* (both absent, or packageIds empty and query empty) returns the          *)
(* validation message and issues no catalog call at all.                   *)
C10_NeitherReturnsMessage ==
    (Invoked("analyze_dataset_updates") /\ NeitherGiven(Get(request).raw)) =>
        /\ Ended("text")
        /\ Get(response).body = RequiredMessage
        /\ calls = <<>>
        /\ pending = {}

(* the call with an empty query and an empty list of ids *)
C10_Witness ==
    /\ Invoked("analyze_dataset_updates")
    /\ Get(request).raw.query = RawString(<<>>)
    /\ Get(request).raw.packageIds = RawArray(<<>>)
    /\ Ended("text")

(* analyze_dataset_updates' parameters name both a query and ids *)
BothGiven(raw) ==
    /\ IsSome(raw.query)
    /\ Get(raw.query).kind = "string"
    /\ Get(raw.query).val # <<>>
    /\ IsSome(raw.packageIds)
    /\ Get(raw.packageIds).kind = "array"
    /\ Get(raw.packageIds).val # <<>>

(* C11 as stated: analyze_dataset_updates performs an analysis only when   *)
(* exactly one of query and packageIds is provided; a call that supplies   *)
(* both a non-empty query and a non-empty list of ids does not end with a  *)
(* normal analysis.                                                        *)
C11_Original_BothNotAnalysed ==
    (Invoked("analyze_dataset_updates") /\ BothGiven(Get(request).raw)) =>
        ~Ended("result")

(* C11 amended: a call that supplies both a non-empty query and a          *)
(* non-empty list of ids is served by the ids alone: one package_show call *)
(* per id, in order, no search, and the analysis it returns is that of the *)
(* packages of those ids, in order.                                        *)
C11_IdsTakePrecedence ==
    (Invoked("analyze_dataset_updates") /\ BothGiven(Get(request).raw)) =>
    LET ids == Get(Get(request).raw.packageIds).val IN
    /\ Len(calls) = Len(ids)
    /\ \A i \in 1..Len(ids) :
          calls[i].action = "package_show" /\ calls[i].id = ids[i]
    /\ Ended("result") =>
          /\ Get(response).body.total_datasets = Len(ids)
          /\ Len(Get(response).body.datasets) = Len(ids)
          /\ \A i \in 1..Len(ids) : Get(response).body.datasets[i].id = ids[i]

(* a call with the query "parking" and two ids that ended with an analysis *)
C11_Witness ==
    /\ Invoked("analyze_dataset_updates")
    /\ BothGiven(Get(request).raw)
    /\ Len(Get(Get(request).raw.packageIds).val) = 2
    /\ Ended("result")
    /\ Get(response).body.total_datasets = 2

---------------------------------------------------------------------------
(* Properties of analyze_dataset_structure                                 *)

(* the invocation has its package *)
StructureHasPackage ==
    Invoked("analyze_dataset_structure") /\ "pkg" \in DOMAIN locals

(* a preview was asked for *)
WantsPreview ==
    Get(args).includeDataPreview /\ Get(args).previewLimit > 0

(* how a resource is reported *)
Reported(r, active, fields, count, sample) ==
    [id |-> r.id, name |-> r.name, format |-> r.format,
     datastore_active |-> active,
     fields |-> fields, record_count |-> count, sample_data |-> sample]

(* the reports of a resource that depend on the answers to its own calls   *)
(* only: untouched when it is not datastore-active; otherwise complete, or *)
(* inactive after its probe failed, or inactive after its sample failed    *)
OwnReports(r) ==
    LET fields == Some(DatastoreFields(r.id))
        count == Some(Len(DatastoreRows(r.id)))
        page == SubSeq(DatastoreRows(r.id), 1,
                       IF Get(args).previewLimit < Len(DatastoreRows(r.id))
                       THEN Get(args).previewLimit ELSE Len(DatastoreRows(r.id)))
    IN IF ~r.datastore_active
       THEN {Reported(r, FALSE, None, None, None)}
       ELSE {Reported(r, FALSE, None, None, None),
             Reported(r, TRUE, fields, count,
                      IF WantsPreview THEN Some(page) ELSE None)}
            \cup (IF WantsPreview
                  THEN {Reported(r, FALSE, fields, count, None)} ELSE {})

(* C12: in analyze_dataset_structure, once the package is fetched, the     *)
(* failure of a resource's probe or sample does not fail the request: the  *)
(* invocation ends with the analysis, the resource whose call failed is    *)
(* reported with datastore_active = false, and every resource is reported  *)
(* as the answers to its own calls make it, whatever happened to the       *)
(* others.                                                                 *)
C12_ProbeFailureDegrades ==
    StructureHasPackage =>
        /\ ~Ended("raised")
        /\ ~Ended("error")
        /\ pc = "done" =>
              /\ Ended("result")
              /\ LET resources == Get(locals.pkg.resources)
                     report == Get(response).body.resources
                 IN /\ Len(report) = Len(resources)
                    /\ \A k \in 1..Len(resources) :
                          report[k] \in OwnReports(resources[k])

(* Green P Parking analysed with a preview: the first resource inactive    *)
(* after a failure, the second complete with its sample                    *)
C12_Witness ==
    /\ StructureHasPackage
    /\ locals.pkg.id = "p3"
    /\ Ended("result")
    /\ WantsPreview
    /\ ~Get(response).body.resources[1].datastore_active
    /\ Get(response).body.resources[2].datastore_active
    /\ Get(response).body.resources[2].sample_data = Some(DatastoreRows("r4"))

(* the resource of the fetched package a datastore call names *)
CalledResources(call) ==
    {k \in 1..Len(Get(locals.pkg.resources)) :
        Get(locals.pkg.resources)[k].id = call.id}

(* C13: analyze_dataset_structure issues, after the fetch of the package,  *)
(* only datastore requests for resources of that package that are flagged  *)
(* datastore-active, at most one probe (limit 0) and one sample for each,  *)
(* and a sample only when includeDataPreview is true and previewLimit > 0  *)
(* (its limit then is previewLimit).                                       *)
C13_OnlyActiveResourcesProbed ==
    Invoked("analyze_dataset_structure") =>
        /\ Len(calls) >= 1 => calls[1].action = "package_show"
        /\ Len(calls) >= 2 => StructureHasPackage
        /\ \A i \in 2..Len(calls) :
              /\ calls[i].action = "datastore_search"
              /\ \E k \in CalledResources(calls[i]) :
                    Get(locals.pkg.resources)[k].datastore_active
              /\ calls[i].limit # 0 =>
                    /\ WantsPreview
                    /\ calls[i].limit = Get(args).previewLimit
                    /\ \E j \in 2..(i - 1) :
                          calls[j].id = calls[i].id /\ calls[j].limit = 0
              /\ \A j \in 2..Len(calls) : calls[j] = calls[i] => j = i

(* Green P Parking analysed with a preview, every call answered: a probe   *)
(* and a sample for each of its two active resources, none for the third   *)
C13_Witness ==
    /\ StructureHasPackage
    /\ locals.pkg.id = "p3"
    /\ Len(Get(locals.pkg.resources)) = 3
    /\ ~Get(locals.pkg.resources)[3].datastore_active
    /\ Ended("result")
    /\ Len(calls) = 5

(* analyze_dataset_updates' parameters name ids *)
IdsGiven(raw) ==
    /\ IsSome(raw.packageIds)
    /\ Get(raw.packageIds).kind = "array"
    /\ Get(raw.packageIds).val # <<>>

(* C14: in analyze_dataset_updates, when packages are fetched by id and    *)
(* the fetch of one of them fails, the request as a whole does not fail:   *)
(* it ends with an analysis that has an entry for every id asked for, the  *)
(* failing one degraded to a marker, the others classified.                *)
C14_FailedFetchDegrades ==
    (Invoked("analyze_dataset_updates") /\ IsSome(args)
        /\ IdsGiven(Get(request).raw)) =>
        /\ ~Ended("raised")
        /\ pc = "done" =>
              /\ Ended("result")
              /\ Len(Get(response).body.datasets)
                    = Len(Get(Get(request).raw.packageIds).val)

---------------------------------------------------------------------------
(* Properties of ckanApiCall                                               *)

(* the fetch was answered with a status outside 200..299 *)
Non2xx(r) == r.kind = "response" /\ r.status \notin 200..299
(* the fetch was answered 2xx with an envelope that says success = false *)
Unsuccessful(r) ==
    /\ r.kind = "response"
    /\ r.status \in 200..299
    /\ IsSome(r.json)
    /\ ~Get(r.json).success

(* C15: ckanApiCall returns the envelope's result exactly when the         *)
(* response is 2xx and the envelope has success = true.  On a non-2xx      *)
(* response it fails with an error whose message carries the HTTP status,  *)
(* on success = false with one whose message carries the upstream error    *)
(* message (when the envelope has one), and it returns no result then.     *)
C15_ResultIffSuccess ==
    IsSome(fetchOutcome) =>
    LET r == fetchReply
        o == Get(fetchOutcome)
    IN /\ o.ok <=> /\ r.kind = "response"
                   /\ r.status \in 200..299
                   /\ IsSome(r.json)
                   /\ Get(r.json).success
       /\ o.ok => o.result = Get(r.json).result
       /\ ~o.ok => o.result = None
       /\ Non2xx(r) =>
             /\ ~o.ok
             /\ ToString(r.status) \in Range(o.error.message)
             /\ r.statusText \in Range(o.error.message)
       /\ Unsuccessful(r) =>
             /\ ~o.ok
             /\ (IsSome(Get(r.json).message) /\ Get(Get(r.json).message) # "") =>
                   Get(Get(r.json).message) \in Range(o.error.message)

(* a 200 response whose envelope says success = false, "Not found" *)
C15_Witness ==
    /\ IsSome(fetchOutcome)
    /\ Unsuccessful(fetchReply)
    /\ fetchReply.status = 200
    /\ Get(fetchReply.json).message = Some("Not found")
    /\ IsSome(Get(fetchReply.json).result)
    /\ ~Get(fetchOutcome).ok

(* the fetch was not answered: the network failed or the timeout fired *)
Unavailable(r) == r.kind \in {"network", "timeout"}

(* the class names of the errors ckanApiCall fails with on a non-2xx       *)
(* response or on success = false                                          *)
CatalogErrorNames ==
    {CkanApiCall(r).error.name :
        r \in {x \in ClientReplies : Non2xx(x) \/ Unsuccessful(x)}}

(* C16 as stated: a catalog call that times out or fails at the network    *)
(* level fails with an error of a kind distinct from the kind of the error *)
(* produced for a non-2xx response or success = false.                     *)
C16_Original_DistinctErrorKind ==
    (IsSome(fetchOutcome) /\ Unavailable(fetchReply)) =>
        /\ ~Get(fetchOutcome).ok
        /\ Get(fetchOutcome).error.name \notin CatalogErrorNames

(* C16 amended: a catalog call that times out or fails at the network      *)
(* level fails with the same kind of error as one answered non-2xx or      *)
(* success = false: a plain Error whose message is "Failed to fetch from   *)
(* CKAN API: " followed by the message of the error caught.  Only that     *)
(* remainder differs: "CKAN API HTTP error: " and the status for a non-2xx *)
(* response, "CKAN API error: " and the upstream message for success =     *)
(* false, and the runtime's own message, which begins with neither, for a  *)
(* timeout or a network failure.                                           *)
C16_SameKindMessageDiffers ==
    (IsSome(fetchOutcome) /\ ~Get(fetchOutcome).ok) =>
    LET e == Get(fetchOutcome).error IN
    /\ e.name = "Error"
    /\ e.message[1] = "Failed to fetch from CKAN API: "
    /\ Non2xx(fetchReply) => e.message[2] = "CKAN API HTTP error: "
    /\ Unsuccessful(fetchReply) => e.message[2] = "CKAN API error: "
    /\ Unavailable(fetchReply) =>
          e.message[2] \notin {"CKAN API HTTP error: ", "CKAN API error: "}

(* a fetch that timed out *)
C16_Witness ==
    /\ IsSome(fetchOutcome)
    /\ fetchReply.kind = "timeout"
    /\ ~Get(fetchOutcome).ok
    /\ Get(fetchOutcome).error.name = "Error"

---------------------------------------------------------------------------
(* Properties of the responses                                             *)

(* C17: every invocation of every tool, on every path (success, error,     *)
(* validation message, empty result), ends with a response of exactly one  *)
(* content item of type text whose text is a JSON-serialized result        *)
(* object.                                                                 *)
C17_EveryResponseIsJsonObject ==
    (IsSome(args) /\ pc = "done") =>
        (Ended("result") \/ Ended("error"))

---------------------------------------------------------------------------
(* Properties of SummaryBuilder                                            *)

(* C18: truncateDescription turns a description longer than 200 characters *)
(* into its first 200 characters followed by "..." (203 characters in      *)
(* total), returns a description of at most 200 characters unmodified, and *)
(* turns an absent description into the empty string.                      *)
C18_TruncatedTo200 ==
    IsSome(truncated) =>
    LET d == Get(truncated) IN
    /\ ~IsSome(pkgNotes) => d = <<>>
    /\ (IsSome(pkgNotes) /\ Len(Get(pkgNotes)) <= 200) =>
          /\ Len(d) = Len(Get(pkgNotes))
          /\ \A i \in 1..Len(d) : d[i] = Get(pkgNotes)[i]
    /\ (IsSome(pkgNotes) /\ Len(Get(pkgNotes)) > 200) =>
          /\ Len(d) = 203
          /\ \A i \in 1..200 : d[i] = Get(pkgNotes)[i]
          /\ \A i \in 201..203 : d[i] = "."

(* a description of 250 characters cut to 203 *)
C18_Witness ==
    /\ IsSome(truncated)
    /\ IsSome(pkgNotes)
    /\ Len(Get(pkgNotes)) = 250
    /\ Len(Get(truncated)) = 203

---------------------------------------------------------------------------
(* Properties of list_datasets                                             *)

(* the limit and the offset asked for, the defaults when omitted *)
RequestedLimit ==
    IF IsSome(Get(request).raw.limit) THEN Get(Get(request).raw.limit).val ELSE 50
RequestedOffset ==
    IF IsSome(Get(request).raw.offset) THEN Get(Get(request).raw.offset).val ELSE 0

(* C19: list_datasets with limit >= 0 and offset >= 0 returns exactly the  *)
(* slice of the full id list from index offset up to, not including,       *)
(* offset + limit, in catalog order: returned_count <= limit,              *)
(* returned_count = min(limit, max(0, total - offset)), total_datasets is  *)
(* the length of the full list, and the limit and offset reported are the  *)
(* ones asked for (50 and 0 only when the parameter is omitted).           *)
C19_ListIsTheRequestedSlice ==
    (Invoked("list_datasets") /\ Ended("result")
        /\ RequestedLimit >= 0 /\ RequestedOffset >= 0) =>
    LET full == locals.fullList
        body == Get(response).body
        rest == IF Len(full) - RequestedOffset > 0
                THEN Len(full) - RequestedOffset ELSE 0
        count == IF RequestedLimit < rest THEN RequestedLimit ELSE rest
    IN /\ body.total_datasets = Len(full)
       /\ body.limit = RequestedLimit
       /\ body.offset = RequestedOffset
       /\ body.returned_count = count
       /\ body.returned_count <= RequestedLimit
       /\ Len(body.dataset_ids) = count
       /\ \A i \in 1..count : body.dataset_ids[i] = full[RequestedOffset + i]

(* the sum of the record counts of the reports numbered in S *)
RECURSIVE RecordCountsOf(_, _)
RecordCountsOf(report, S) ==
    IF S = {} THEN 0
    ELSE LET k == CHOOSE x \in S : TRUE IN
         (IF IsSome(report[k].record_count)
          THEN Get(report[k].record_count) ELSE 0)
         + RecordCountsOf(report, S \ {k})

(* C20: the resource_summary of analyze_dataset_structure has, for every   *)
(* package and every combination of probe outcomes: total_resources = the  *)
(* number of resources of the package; datastore_resources = the number of *)
(* reported resources whose datastore_active is true after degradation     *)
(* (hence <= total_resources); formats = the distinct format values, none  *)
(* twice; total_records = the sum of the record counts of the reported     *)
(* resources.                                                              *)
C20_ResourceSummary ==
    (StructureHasPackage /\ Ended("result")) =>
    LET resources == Get(locals.pkg.resources)
        report == Get(response).body.resources
        summary == Get(response).body.resource_summary
    IN /\ summary.total_resources = Len(resources)
       /\ summary.datastore_resources =
             Cardinality({k \in 1..Len(report) : report[k].datastore_active})
       /\ summary.datastore_resources <= summary.total_resources
       /\ Range(summary.formats) = {resources[k].format : k \in 1..Len(resources)}
       /\ Cardinality(Range(summary.formats)) = Len(summary.formats)
       /\ summary.total_records = RecordCountsOf(report, 1..Len(report))

(* Green P Parking analysed with a preview, the sample of its second       *)
(* resource failed: three resources, one still active, two formats (CSV    *)
(* twice), and the record of the degraded resource counted                 *)
C20_Witness ==
    /\ StructureHasPackage
    /\ Ended("result")
    /\ locals.pkg.id = "p3"
    /\ Get(response).body.resources[1].datastore_active
    /\ ~Get(response).body.resources[2].datastore_active
    /\ Get(response).body.resources[2].record_count = Some(1)
    /\ Get(response).body.resource_summary.total_resources = 3
    /\ Get(response).body.resource_summary.datastore_resources = 1
    /\ Len(Get(response).body.resource_summary.formats) = 2
    /\ Get(response).body.resource_summary.total_records = 1

(* get_dataset_insights past its search: the datasets it retained *)
InsightsRetained ==
    Invoked("get_dataset_insights") /\ "scoredDatasets" \in DOMAIN locals

(* the probes get_dataset_insights issued, after its search *)
InsightsProbes == SubSeq(calls, 2, Len(calls))

(* what is retained is the best of the results, in non-increasing order   *)
InsightsKeepsTheBest ==
    LET q == Get(args).query
        all == locals.searchResult.results
        kept == locals.scoredDatasets
        keptSet == {kept[k].dataset : k \in 1..Len(kept)}
    IN /\ keptSet \subseteq Range(all)
       /\ \A i, j \in 1..Len(kept) :
             i < j => Score(kept[i].dataset, q) >= Score(kept[j].dataset, q)
       /\ \A d \in Range(all) \ keptSet :
             \A k \in keptSet : Score(d, q) <= Score(k, q)

(* at most one probe per retained dataset, only when asked for, and of the *)
(* first datastore-active resource of the dataset in resource order        *)
InsightsProbesFirstActive ==
    LET kept == locals.scoredDatasets
        first(d) == SelectSeq(Get(d.resources), LAMBDA r : r.datastore_active)[1]
        active(d) == /\ IsSome(d.resources)
                     /\ \E k \in 1..Len(Get(d.resources)) :
                           Get(d.resources)[k].datastore_active
    IN /\ Len(InsightsProbes) <= Len(kept)
       /\ ~Get(args).includeDataStructure => InsightsProbes = <<>>
       /\ \A i \in 1..Len(InsightsProbes) :
             /\ InsightsProbes[i].action = "datastore_search"
             /\ \E k \in 1..Len(kept) :
                   /\ active(kept[k].dataset)
                   /\ InsightsProbes[i].id = first(kept[k].dataset).id
       /\ \A i, j \in 1..Len(InsightsProbes) :
             i # j => InsightsProbes[i].id # InsightsProbes[j].id

(* every insight's data_structure is its own dataset's: the error marker   *)
(* or the probe's count and fields, whatever the other probes answered     *)
InsightsStructuresOwn ==
    Ended("result") =>
    LET kept == locals.scoredDatasets
        out == Get(response).body.insights
    IN /\ Len(out) = Len(kept)
       /\ \A k \in 1..Len(out) :
             LET d == kept[k].dataset IN
             /\ out[k].id = d.id
             /\ out[k].relevance_score = Score(d, Get(args).query)
             /\ (Get(args).includeDataStructure /\ DatastoreResources(d) # <<>>) =>
                   /\ IsSome(out[k].data_structure)
                   /\ LET ds == Get(out[k].data_structure)
                          id == DatastoreResources(d)[1].id
                      IN \/ /\ ds.error = "Could not fetch datastore info"
                            /\ ds.record_count = None
                            /\ ds.fields = None
                         \/ /\ ds.error = ""
                            /\ ds.record_count = Some(Len(DatastoreRows(id)))
                            /\ ds.fields = Some(DatastoreFields(id))

(* C21: get_dataset_insights retains at most maxDatasets datasets, the     *)
(* highest-scored ones in non-increasing order of score; for each retained *)
(* dataset it issues at most one structure probe, only when                *)
(* includeDataStructure is true and only for the dataset's first           *)
(* datastore-active resource; a failed probe leaves an error marker in     *)
(* that dataset's data_structure and the other insights are unaffected.    *)
C21_InsightsRetainsAtMostMax ==
    InsightsRetained =>
        /\ Len(locals.scoredDatasets) <= Get(args).maxDatasets
        /\ InsightsKeepsTheBest
        /\ InsightsProbesFirstActive
        /\ InsightsStructuresOwn

(* get_dataset_insights answered with its result *)
InsightsAnswered ==
    Invoked("get_dataset_insights") /\ Ended("result")

(* the tag names of a retained dataset, none when it has no tags *)
TagsOf(d) ==
    IF IsSome(d.tags) THEN {Get(d.tags)[k].name : k \in 1..Len(Get(d.tags))}
    ELSE {}

(* in how many of the retained datasets a tag occurs *)
Occurrences(tag) ==
    Cardinality({k \in 1..Len(locals.scoredDatasets) :
                    tag \in TagsOf(locals.scoredDatasets[k].dataset)})

(* the titles of the organizations of the retained datasets *)
RetainedOrganizations ==
    {Get(Get(locals.scoredDatasets[k].dataset.organization).title) :
        k \in {j \in 1..Len(locals.scoredDatasets) :
                  LET d == locals.scoredDatasets[j].dataset IN
                  /\ IsSome(d.organization)
                  /\ IsSome(Get(d.organization).title)
                  /\ Get(Get(d.organization).title) # <<>>}}

RetainedTags ==
    UNION {TagsOf(locals.scoredDatasets[k].dataset) :
              k \in 1..Len(locals.scoredDatasets)}

(* organizations: the distinct organization titles of what was retained;  *)
(* common_tags: at most 10 tags of retained datasets, none twice          *)
SuggestionsAreOfRetained ==
    LET suggestions == Get(response).body.query_suggestions IN
    /\ Range(suggestions.organizations) = RetainedOrganizations
    /\ Cardinality(Range(suggestions.organizations))
          = Len(suggestions.organizations)
    /\ Len(suggestions.common_tags) <= 10
    /\ Cardinality(Range(suggestions.common_tags)) = Len(suggestions.common_tags)
    /\ Range(suggestions.common_tags) \subseteq RetainedTags

(* the place of the first dataset that carries the tag, and of the tag in *)
(* that dataset's tags                                                     *)
FirstSeen(tag) ==
    LET kept == locals.scoredDatasets
        k == CHOOSE j \in 1..Len(kept) :
                /\ tag \in TagsOf(kept[j].dataset)
                /\ \A i \in 1..(j - 1) : tag \notin TagsOf(kept[i].dataset)
        tags == Get(kept[k].dataset.tags)
        p == CHOOSE j \in 1..Len(tags) :
                /\ tags[j].name = tag
                /\ \A i \in 1..(j - 1) : tags[i].name # tag
    IN <<k, p>>

Earlier(a, b) == a[1] < b[1] \/ (a[1] = b[1] /\ a[2] < b[2])

(* C22 as stated: organizations = the distinct organization titles of the  *)
(* retained datasets, and common_tags = the top 10 distinct tags among     *)
(* them: at most 10, none twice, each a tag of a retained dataset, and no  *)
(* tag left out occurs in more retained datasets than a tag included.      *)
C22_Original_MostCommonTags ==
    InsightsAnswered =>
        /\ SuggestionsAreOfRetained
        /\ \A out \in RetainedTags \ Range(Get(response).body.query_suggestions.common_tags) :
           \A in \in Range(Get(response).body.query_suggestions.common_tags) :
              Occurrences(out) <= Occurrences(in)

(* C22, amended: organizations = the distinct non-empty organization       *)
(* titles of the retained datasets, and common_tags = the first 10         *)
(* distinct tags in the order in which they are first met, going through   *)
(* the retained datasets in order and each dataset's tags in order: at     *)
(* most 10, none twice, each a tag of a retained dataset, all of them when *)
(* there are no more than 10, and every tag left out first met after every *)
(* tag included, however many datasets carry it.                           *)
C22_FirstTenTagsMet ==
    InsightsAnswered =>
        LET tags == Get(response).body.query_suggestions.common_tags IN
        /\ SuggestionsAreOfRetained
        /\ Len(tags) = (IF Cardinality(RetainedTags) < 10
                        THEN Cardinality(RetainedTags) ELSE 10)
        /\ \A i, j \in 1..Len(tags) :
              i < j => Earlier(FirstSeen(tags[i]), FirstSeen(tags[j]))
        /\ \A out \in RetainedTags \ Range(tags) :
           \A in \in Range(tags) : Earlier(FirstSeen(in), FirstSeen(out))

(* twelve distinct tags among three retained datasets: the ten of the      *)
(* first are kept, and the one left out is carried by the other two        *)
C22_Witness ==
    /\ InsightsAnswered
    /\ Len(locals.scoredDatasets) = 3
    /\ Cardinality(RetainedTags) = 12
    /\ Len(Get(response).body.query_suggestions.common_tags) = 10
    /\ \E out \in RetainedTags \ Range(Get(response).body.query_suggestions.common_tags) :
          /\ Occurrences(out) = 2
          /\ \A in \in Range(Get(response).body.query_suggestions.common_tags) :
                Occurrences(in) = 1

---------------------------------------------------------------------------
(* Properties of the scorer, continued                                     *)

CriteriaNames == {"title", "description", "tags", "organization", "resource"}

(* the criteria among the five that match the query for the package *)
Criteria(d, q) ==
    {c \in CriteriaNames :
        \/ c = "title" /\ TitleMatches(d, q)
        \/ c = "description" /\ DescriptionMatches(d, q)
        \/ c = "tags" /\ TagMatches(d, q)
        \/ c = "organization" /\ OrganizationMatches(d, q)
        \/ c = "resource" /\ ResourceMatches(d, q)}

(* a package that matches the query q in exactly the criteria of C: each   *)
(* field of C holds q itself, every other field is missing                 *)
PackageMatching(C, q) ==
    [title |-> IF "title" \in C THEN Some(q) ELSE None,
     notes |-> IF "description" \in C THEN Some(q) ELSE None,
     tags |-> IF "tags" \in C THEN Some(<<[name |-> q]>>) ELSE None,
     organization |-> IF "organization" \in C THEN Some([title |-> Some(q)])
                      ELSE None,
     resources |-> IF "resource" \in C
                   THEN Some(<<[name |-> Some(q), format |-> None]>>) ELSE None]

(* C23: for all packages P and queries Q, score(P, Q) >= 0, and score is   *)
(* monotone in the set of matching criteria: a package scores no more than *)
(* any package that matches Q in at least the same criteria.  The package  *)
(* scored is compared, both ways, with a package of each of the 32 sets of *)
(* criteria; any two packages compare through the one between them.        *)
C23_ScoreMonotone ==
    IsSome(relevance) =>
        /\ Get(relevance) >= 0
        /\ \A C \in SUBSET CriteriaNames :
              /\ Criteria(PackageMatching(C, query), query) = C
              /\ Criteria(dataset, query) \subseteq C =>
                    Get(relevance) <= Score(PackageMatching(C, query), query)
              /\ C \subseteq Criteria(dataset, query) =>
                    Score(PackageMatching(C, query), query) <= Get(relevance)

(* a package scored 1 for a resource alone, which a package matching in    *)
(* the title as well outscores                                             *)
C23_Witness ==
    /\ relevance = Some(1)
    /\ Criteria(dataset, query) = {"resource"}
    /\ query # <<>>
    /\ Score(PackageMatching({"title", "resource"}, query), query) = 11

---------------------------------------------------------------------------
(* Properties of the tool handlers, continued                              *)

(* find_relevant_datasets answered for the query "parking" when the        *)
(* catalog returned Parking Tickets, Traffic Signals and Green P Parking,  *)
(* in this order                                                           *)
ParkingScenario ==
    /\ Invoked("find_relevant_datasets")
    /\ Ended("result")
    /\ Get(args).query = <<"p","a","r","k","i","n","g">>
    /\ locals.searchResult.results = <<ParkingTickets, TrafficSignals, GreenPParking>>

(* the scores reported, where the call asked for them *)
ReportedScores(expected) ==
    LET out == Get(response).body.datasets IN
    \A i \in 1..Len(out) :
        IsSome(out[i].relevance_score) =>
           Get(out[i].relevance_score) = expected[i]

(* Traffic Signals is the first package dropped: it is returned only when  *)
(* nothing is dropped, and then last                                       *)
TrafficSignalsDroppedFirst ==
    LET out == Get(response).body.datasets IN
    /\ Get(args).maxResults < 3 =>
          \A i \in 1..Len(out) : out[i].dataset # TrafficSignals
    /\ \A i \in 1..Len(out) : out[i].dataset = TrafficSignals => i = 3

(* C24 as stated: in the scenario the two parking packages each score 10   *)
(* and are returned in their original order, Traffic Signals scores 0 and, *)
(* with maxResults < 3, is the first package dropped.                      *)
C24_Original_BothScoreTen ==
    ParkingScenario =>
        LET out == Get(response).body.datasets IN
        /\ Score(ParkingTickets, Get(args).query) = 10
        /\ Score(GreenPParking, Get(args).query) = 10
        /\ Score(TrafficSignals, Get(args).query) = 0
        /\ ReportedScores(<<10, 10, 0>>)
        /\ \A i, j \in 1..Len(out) :
              (out[i].dataset = ParkingTickets /\ out[j].dataset = GreenPParking)
                 => i < j
        /\ TrafficSignalsDroppedFirst

(* C24, amended: in the scenario Parking Tickets scores 13 (title 10 and   *)
(* tag 3), Green P Parking 10 (title) and Traffic Signals 0; what is       *)
(* returned is the beginning of Parking Tickets, Green P Parking, Traffic  *)
(* Signals, the order of their scores, in which the two parking packages   *)
(* keep their original order; with maxResults < 3 Traffic Signals is the   *)
(* first package dropped.                                                  *)
C24_ParkingScenarioScores ==
    ParkingScenario =>
        LET out == Get(response).body.datasets
            order == <<ParkingTickets, GreenPParking, TrafficSignals>>
        IN /\ Score(ParkingTickets, Get(args).query) = 13
           /\ Score(GreenPParking, Get(args).query) = 10
           /\ Score(TrafficSignals, Get(args).query) = 0
           /\ ReportedScores(<<13, 10, 0>>)
           /\ Len(out) <= 3
           /\ \A i \in 1..Len(out) : out[i].dataset = order[i]
           /\ Get(args).maxResults \in 0..3 => Len(out) = Get(args).maxResults
           /\ TrafficSignalsDroppedFirst

(* the scenario with maxResults = 2 and the scores reported: the two       *)
(* parking packages are returned, Traffic Signals is not                   *)
C24_Witness ==
    /\ ParkingScenario
    /\ Get(args).maxResults = 2
    /\ Len(Get(response).body.datasets) = 2
    /\ Get(response).body.datasets[1].relevance_score = Some(13)
    /\ Get(response).body.datasets[2].relevance_score = Some(10)
    /\ Get(response).body.datasets[2].dataset = GreenPParking

---------------------------------------------------------------------------
(* Properties of the worker's fetch                                        *)

(* C25: the fetch router dispatches by path: /sse and /sse/message go to   *)
(* the SSE server, /mcp goes to the MCP server, and every other path, the  *)
(* root path included, gets a 404 "Not found" response; conversely /mcp    *)
(* and /sse are never answered with the router's 404.                      *)
C25_RoutesByPath ==
    IsSome(routed) =>
        LET path == Get(pathname)
            r == Get(routed)
        IN /\ path \in {<<"sse">>, <<"sse", "message">>} <=> r.to = "serveSSE"
           /\ path = <<"mcp">> <=> r.to = "serve"
           /\ path \notin {<<"sse">>, <<"sse", "message">>, <<"mcp">>} <=>
                 (r.to = "Response" /\ r.status = 404 /\ r.body = "Not found")
           /\ path = <<"">> => r.to = "Response"
           /\ path \in {<<"mcp">>, <<"sse">>} => r.to # "Response"

(* a request for /sse/tools: under /sse, yet answered by the router's 404  *)
C25_Witness ==
    /\ pathname = Some(<<"sse", "tools">>)
    /\ IsSome(routed)
    /\ Get(routed).to = "Response"
    /\ Get(routed).status = 404

---------------------------------------------------------------------------
(* Properties of the tool handlers: order                                  *)

(* the place of a package in the results the catalog search returned *)
PlaceIn(all, d) == CHOOSE i \in 1..Len(all) : all[i] = d

(* kept, a list of packages taken from the results all, keeps packages of  *)
(* equal score in the order of all, and leaves out no package that comes   *)
(* before a kept one of the same score                                     *)
TiesInCatalogOrder(all, kept, q) ==
    /\ \A i, j \in 1..Len(kept) :
          (i < j /\ Score(kept[i], q) = Score(kept[j], q)) =>
             PlaceIn(all, kept[i]) < PlaceIn(all, kept[j])
    /\ \A i \in 1..Len(kept) : \A d \in Range(all) \ Range(kept) :
          Score(kept[i], q) = Score(d, q) => PlaceIn(all, kept[i]) < PlaceIn(all, d)

(* C26: in find_relevant_datasets and get_dataset_insights the sort by     *)
(* descending score is stable: two packages of equal relevance score come  *)
(* out in the relative order in which the catalog search returned them,    *)
(* with nothing cut (before truncation) and among what the cut keeps       *)
(* (after it), where the ones kept are the earlier ones.                   *)
C26_SortIsStable ==
    /\ (Invoked("find_relevant_datasets") /\ Ended("result")) =>
          TiesInCatalogOrder(
             locals.searchResult.results,
             [i \in 1..Len(Get(response).body.datasets) |->
                 Get(response).body.datasets[i].dataset],
             Get(args).query)
    /\ InsightsRetained =>
          TiesInCatalogOrder(
             locals.searchResult.results,
             [i \in 1..Len(locals.scoredDatasets) |->
                 locals.scoredDatasets[i].dataset],
             Get(args).query)
    /\ InsightsAnswered =>
          \A i \in 1..Len(locals.scoredDatasets) :
              Get(response).body.insights[i].id = locals.scoredDatasets[i].dataset.id

(* get_dataset_insights for "CSV" over Green P Parking, Sparse and Parking *)
(* Tickets cut to two: the parking packages both score 1 and Green P       *)
(* Parking, returned first by the catalog, stays first                     *)
C26_Witness ==
    /\ InsightsAnswered
    /\ Get(args).query = <<"C","S","V">>
    /\ Get(args).maxDatasets = 2
    /\ locals.searchResult.results = <<GreenPParking, Sparse, ParkingTickets>>
    /\ Get(response).body.insights[1].id = "p3"
    /\ Get(response).body.insights[2].id = "p1"
    /\ Get(response).body.insights[1].relevance_score = 1
    /\ Get(response).body.insights[2].relevance_score = 1

(* the handlers that issue independent catalog lookups at once *)
FanOutTools ==
    {"analyze_dataset_updates", "analyze_dataset_structure", "get_data_categories"}

(* the handler has gone past its fan-out: it has ended, one way or another *)
FannedIn ==
    /\ IsSome(request)
    /\ Get(request).tool \in FanOutTools
    /\ pc = "done"

(* what is returned lists its entries in the order of the input: the ids   *)
(* asked for, the resources of the package, organizations then groups      *)
EntriesInInputOrder ==
    /\ (Invoked("analyze_dataset_updates") /\ Ended("result")
          /\ IdsGiven(Get(request).raw)) =>
          LET ids == Get(Get(args).packageIds)
              out == Get(response).body.datasets
          IN /\ Len(out) = Len(ids)
             /\ \A i \in 1..Len(ids) : out[i].id = ids[i]
    /\ (StructureHasPackage /\ Ended("result")) =>
          LET resources == Get(locals.pkg.resources)
              out == Get(response).body.resources
          IN /\ Len(out) = Len(resources)
             /\ \A k \in 1..Len(resources) : out[k].id = resources[k].id
    /\ (Invoked("get_data_categories") /\ Ended("result")) =>
          /\ \A k \in 1..Len(Get(response).body.organizations) :
                Get(response).body.organizations[k].name \in {"police", "transportation"}
          /\ \A k \in 1..Len(Get(response).body.groups) :
                Get(response).body.groups[k].name = "mobility"

(* C27: where a handler fans out independent catalog lookups (package      *)
(* fetches by id in analyze_dataset_updates, per-resource probes in        *)
(* analyze_dataset_structure, organizations and groups in                  *)
(* get_data_categories), it proceeds only after all of them have           *)
(* completed, and what it returns does not depend on the order in which    *)
(* they complete: the entries are in the order of the input ids or         *)
(* resources.                                                              *)
C27_FanInWaitsForAll ==
    /\ FannedIn => pending = {}
    /\ EntriesInInputOrder

---------------------------------------------------------------------------
(* Properties of the basic handlers                                        *)

BasicTools ==
    {"get_package", "get_first_datastore_resource_records",
     "get_resource_records", "list_datasets", "search_datasets"}

(* a basic handler is serving a call the schema accepted *)
BasicInvoked ==
    IsSome(request) /\ Get(request).tool \in BasicTools /\ IsSome(args)

(* what the error field of each basic handler starts with *)
ErrorPrefix(tool) ==
    CASE tool = "get_package" -> "Failed to fetch package: "
      [] tool = "get_first_datastore_resource_records" ->
            "Failed to fetch resource records: "
      [] tool = "get_resource_records" -> "Failed to fetch resource records: "
      [] tool = "list_datasets" -> "Failed to list datasets: "
      [] tool = "search_datasets" -> "Failed to search datasets: "

(* the catalog cannot answer the first call of the handler: no package of  *)
(* that id, no datastore table of that resource                            *)
FirstCallMustFail ==
    \/ /\ Get(request).tool \in {"get_package", "get_first_datastore_resource_records"}
       /\ \A x \in CatalogPackages : x.id # Get(args).packageId
    \/ /\ Get(request).tool = "get_resource_records"
       /\ Get(args).resourceId \notin {"r1", "r3", "r4"}

(* the datastore-active resources of the package asked for, in order *)
ActivePlaces(pkg) ==
    {k \in 1..Len(Get(pkg.resources)) : Get(pkg.resources)[k].datastore_active}

(* get_first_datastore_resource_records: no datastore request and the      *)
(* message when the package has no active resource, otherwise one request  *)
(* for records of the first active resource in resource order              *)
FirstActiveResourceRead ==
    (BasicInvoked /\ Get(request).tool = "get_first_datastore_resource_records") =>
       /\ Len(calls) <= 2
       /\ \A pkg \in {x \in CatalogPackages : x.id = Get(args).packageId} :
             /\ Len(calls) = 2 =>
                   /\ ActivePlaces(pkg) # {}
                   /\ \E k \in ActivePlaces(pkg) :
                         /\ \A j \in ActivePlaces(pkg) : k <= j
                         /\ calls[2].action = "datastore_search"
                         /\ calls[2].id = Get(pkg.resources)[k].id
                         /\ calls[2].limit = Get(args).limit
             /\ (Ended("result") /\ ActivePlaces(pkg) = {}) =>
                   /\ Len(calls) = 1
                   /\ DOMAIN Get(response).body = {"message"}
                   /\ Get(response).body.message = "No active datastore resources found."
             /\ (Ended("result") /\ ActivePlaces(pkg) # {}) =>
                   /\ Len(calls) = 2
                   /\ Get(response).body.resource_id = calls[2].id
                   /\ Get(response).body.total_records = Len(DatastoreRows(calls[2].id))

(* C28: the five basic handlers never raise: whenever a catalog call they  *)
(* make fails they return a response whose object has an error field that  *)
(* contains the failure message; get_first_datastore_resource_records      *)
(* issues no datastore request and returns a message object when the       *)
(* package has no datastore-active resource, and otherwise requests the    *)
(* records of the first datastore-active resource in resource order.       *)
C28_BasicHandlersNeverRaise ==
    /\ BasicInvoked =>
          /\ ~Ended("raised")
          /\ pc = "done" => (Ended("result") \/ Ended("error"))
          /\ (pc = "done" /\ FirstCallMustFail) => Ended("error")
          /\ Ended("error") =>
                \E f \in Failures :
                    Get(response).body =
                       <<ErrorPrefix(Get(request).tool)>> \o CkanApiCall(f).error.message
          /\ (Ended("result") /\ Get(request).tool = "get_package") =>
                Get(response).body.id = Get(args).packageId
          /\ (Ended("result") /\ Get(request).tool = "get_resource_records") =>
                Get(response).body.total_records = Len(DatastoreRows(Get(args).resourceId))
    /\ FirstActiveResourceRead

(* Green P Parking read, its first active resource asked for and the       *)
(* request answered with HTTP 404: the error field carries the message     *)
C28_Witness ==
    /\ BasicInvoked
    /\ Get(request).tool = "get_first_datastore_resource_records"
    /\ Get(args).packageId = "p3"
    /\ Len(calls) = 2
    /\ calls[2].id = "r3"
    /\ Ended("error")
    /\ Get(response).body =
          <<"Failed to fetch resource records: ", "Failed to fetch from CKAN API: ",
            "CKAN API HTTP error: ", "404", " ", "Not Found">>

---------------------------------------------------------------------------
(* Properties of analyze_dataset_updates                                   *)

UpdatesAnswered ==
    Invoked("analyze_dataset_updates") /\ Ended("result")

RECURSIVE SumOfCounts(_)
SumOfCounts(buckets) ==
    IF buckets = <<>> THEN 0
    ELSE Head(buckets).count + SumOfCounts(Tail(buckets))

(* how many times x occurs in the list a *)
Times(a, x) == Cardinality({k \in 1..Len(a) : a[k] = x})

(* the buckets partition the analysed datasets by category *)
PartitionByCategory(analysis, buckets) ==
    /\ \A b, c \in 1..Len(buckets) :
          b # c => buckets[b].frequency # buckets[c].frequency
    /\ \A b \in 1..Len(buckets) :
          /\ buckets[b].count >= 1
          /\ buckets[b].count = Len(buckets[b].datasets)
          /\ buckets[b].count =
                Cardinality({k \in 1..Len(analysis) :
                                analysis[k].update_frequency = buckets[b].frequency})
          /\ \A p \in 1..Len(buckets[b].datasets) :
                \E k \in 1..Len(analysis) :
                    /\ analysis[k].update_frequency = buckets[b].frequency
                    /\ buckets[b].datasets[p] =
                          [id |-> analysis[k].id, title |-> analysis[k].title]
    /\ \A k \in 1..Len(analysis) :
          \E b \in 1..Len(buckets) :
              LET pair == [id |-> analysis[k].id, title |-> analysis[k].title] IN
              /\ buckets[b].frequency = analysis[k].update_frequency
              /\ Times(buckets[b].datasets, pair) =
                    Cardinality({j \in 1..Len(analysis) :
                                    /\ analysis[j].id = analysis[k].id
                                    /\ analysis[j].title = analysis[k].title})
    /\ SumOfCounts(buckets) = Len(analysis)

(* C29: when analyze_dataset_updates runs with groupByFrequency true,      *)
(* frequency_summary is a partition of the analysed datasets by category:  *)
(* every dataset is in exactly one bucket, the bucket of its own           *)
(* update_frequency; no bucket is empty; each bucket's count is the number *)
(* of its id/title pairs; the counts sum to total_datasets.  When          *)
(* groupByFrequency is false there is no frequency_summary.                *)
C29_SummaryIsPartition ==
    UpdatesAnswered =>
        LET body == Get(response).body IN
        /\ body.total_datasets = Len(body.datasets)
        /\ \A k \in 1..Len(body.datasets) :
              body.datasets[k].update_frequency \in Categories
        /\ IF Get(args).groupByFrequency
           THEN /\ IsSome(body.frequency_summary)
                /\ PartitionByCategory(body.datasets, Get(body.frequency_summary))
           ELSE body.frequency_summary = None

(* three datasets found by a query and grouped into two buckets: Traffic   *)
(* Signals and Sparse both infrequent, Parking Tickets daily               *)
C29_Witness ==
    /\ UpdatesAnswered
    /\ Get(args).groupByFrequency
    /\ Get(response).body.total_datasets = 3
    /\ Len(Get(Get(response).body.frequency_summary)) = 2
    /\ Get(Get(response).body.frequency_summary)[1].frequency = "infrequent"
    /\ Get(Get(response).body.frequency_summary)[1].count = 2
    /\ Get(Get(response).body.frequency_summary)[2].frequency = "daily"
    /\ Get(Get(response).body.frequency_summary)[2].count = 1

---------------------------------------------------------------------------
(* Properties of analyze_dataset_structure, continued                      *)

===========================================================================
